---- MODULE Spec2Model ----
(***************************************************************************)
(* The evidence retention store (class EvidenceStore): identifier          *)
(* validation, the advisory file lock with stale-lock reclamation, the     *)
(* temp-file-then-rename writer, the scanner, the pruner and its           *)
(* single-flight cycle, modelled as a state machine over the evidence      *)
(* directory and the asynchronous calls in flight.                         *)
(*                                                                         *)
(* Strings are sequences of one-character strings.  Time is a millisecond  *)
(* clock that advances in steps of TickMs; every Date.now() difference of  *)
(* the code is kept as a timer that the clock step advances.               *)
(***************************************************************************)
EXTENDS Integers, Sequences, FiniteSets, TLC

VARIABLES
  now,          \* Date.now(), ms
  config,       \* per store: the EvidenceConfig given to the constructor
  lock,         \* evidence/.lock: NoLock or [ino, age]: the marker's inode and Date.now() - mtimeMs
  files,        \* evidence/: file name -> [text, mtime]
  tmp,          \* evidence/.tmp/: staging file of each caller's current save
  orphans,      \* evidence/.tmp/: number of staging files left by earlier calls
  initState,    \* per store: initPromise pending / done / failed
  pruneInFlight,\* per store: is a prune cycle promise set
  prunePending, \* per store
  reruns,       \* per store: local variable of executePruneCycle
  sinceEnd,     \* per store: Date.now() - lastPruneEndTime, saturating
  waiter,       \* per store: the caller awaiting pruneInFlight, or 0
  pc,           \* per thread: position
  store,        \* per caller: the store instance it calls
  op,           \* per caller: the public operation in flight
  bundle,       \* per caller: the argument of saveEvidence
  rec,          \* per caller: [id, text] built by saveEvidence before the lock
  err,          \* per thread: the error being thrown / the rejection
  attempt,      \* per thread: backoff index of acquireLock / retry index of writeWithRetries
  elapsed,      \* per thread: Date.now() - startTime of acquireLock, saturating
  sleepLeft,    \* per thread: remaining time of the pending sleep()
  stats,        \* per thread: inode seen by the first fs.stat of acquireLock, 0 if none
  held,         \* per thread: the inode of the marker this thread created, 0 if none
  scan,         \* per thread: [names, out, del, at] of scanEvidenceFiles and pruneOnce
  result,       \* per caller: what the call resolved with (listEvidence)
  hist          \* history: facts about the run used to state the properties

vars == <<now, config, lock, files, tmp, orphans, initState, pruneInFlight, prunePending,
          reruns, sinceEnd, waiter, pc, store, op, bundle, rec, err, attempt, elapsed,
          sleepLeft, stats, held, scan, result, hist>>

----------------------------------------------------------------------------
(* Bounds of the model *)
NumCallers == 2
NumStores == 2
MaxOps == 2
TickMs == 5001
MaxTicks == 0
MaxFaults == 2

(* Program constants *)
ID_MAX_LEN == 64
LOCK_TIMEOUT_MS == 5000
LOCK_TOTAL_TIMEOUT_MS == 10000
PRUNE_MIN_INTERVAL_MS == 1000
PRUNE_RERUN_CAP == 3
MAX_TMP_CLEANUP_FILES == 1000
maxRetries == 5
LOCK_BACKOFFS_MS == <<10, 50, 100, 200, 500>>

----------------------------------------------------------------------------
(* Characters and strings *)
Lower == <<"a","b","c","d","e","f","g","h","i","j","k","l","m",
           "n","o","p","q","r","s","t","u","v","w","x","y","z">>
Upper == <<"A","B","C","D","E","F","G","H","I","J","K","L","M",
           "N","O","P","Q","R","S","T","U","V","W","X","Y","Z">>
Digits == <<"0","1","2","3","4","5","6","7","8","9">>
Range(s) == {s[i] : i \in DOMAIN s}
WhiteSpace == {" ", "\t", "\n"}

Min(a, b) == IF a < b THEN a ELSE b
Max(a, b) == IF a > b THEN a ELSE b

(* String.prototype.trim *)
RECURSIVE TrimLeft(_)
TrimLeft(s) == IF s # <<>> /\ Head(s) \in WhiteSpace THEN TrimLeft(Tail(s)) ELSE s
RECURSIVE TrimRight(_)
TrimRight(s) ==
  IF s # <<>> /\ s[Len(s)] \in WhiteSpace THEN TrimRight(SubSeq(s, 1, Len(s) - 1)) ELSE s
Trim(s) == TrimRight(TrimLeft(s))

(* String.prototype.toUpperCase *)
UpChar(c) == IF \E i \in DOMAIN Lower : Lower[i] = c
             THEN Upper[CHOOSE i \in DOMAIN Lower : Lower[i] = c] ELSE c
ToUpperCase(s) == [i \in DOMAIN s |-> UpChar(s[i])]

(* ID_PATTERN = /^[a-zA-Z0-9_-]{1,64}$/ *)
IdChars == Range(Lower) \cup Range(Upper) \cup Range(Digits) \cup {"_", "-"}
ID_PATTERN(s) == Len(s) >= 1 /\ Len(s) <= ID_MAX_LEN /\ \A i \in DOMAIN s : s[i] \in IdChars

Str3(a, b, c) == <<a, b, c>>
Str4(a, b, c, d) == <<a, b, c, d>>
WINDOWS_RESERVED_NAMES ==
  {Str3("C","O","N"), Str3("P","R","N"), Str3("A","U","X"), Str3("N","U","L")}
  \cup {Str4("C","O","M", Digits[i]) : i \in 2..10}
  \cup {Str4("L","P","T", Digits[i]) : i \in 2..10}

(* The value undefined of an optional field *)
Undefined == <<"undefined">>

(* randomUUID(): 36 characters, hexadecimal digits and four hyphens *)
UUID(c) == [i \in 1..36 |-> IF i \in {9, 14, 19, 24} THEN "-" ELSE IF i = 15 THEN "4" ELSE c]
UUIDs == {UUID("a"), UUID("b")}

(* candidate || randomUUID(): the candidate unless it is falsy *)
OrUUID(candidate, uuid) == IF candidate = Undefined \/ candidate = <<>> THEN uuid ELSE candidate

(* normalizeId: [ok, id] *)
normalizeId(candidate, uuid) ==
  LET base == Trim(OrUUID(candidate, uuid)) IN
  IF ~ID_PATTERN(base) THEN [ok |-> FALSE, id |-> base, why |-> "pattern"]
  ELSE IF "." \in Range(base) \/ ":" \in Range(base)
       THEN [ok |-> FALSE, id |-> base, why |-> "dot"]
  ELSE IF ToUpperCase(base) \in WINDOWS_RESERVED_NAMES
       THEN [ok |-> FALSE, id |-> base, why |-> "reserved"]
  ELSE [ok |-> TRUE, id |-> base, why |-> "none"]

----------------------------------------------------------------------------
(* JavaScript values: <<kind, characters>> *)
JStr(s) == <<"string", s>>
JNum(digits) == <<"number", digits>>
JNull == <<"null", <<>>>>
Kind(v) == v[1]
Chars(v) == v[2]

(* Truthiness, as in `parsed.id && parsed.created_at` *)
Truthy(v) ==
  /\ v # Undefined
  /\ Kind(v) \notin {"null", "NaN"}
  /\ Kind(v) = "string" => Chars(v) # <<>>
  /\ Kind(v) = "number" => Chars(v) # <<"0">>

(* JSON text: a sequence of tokens, "{", one token per member, "}" *)
OpenBrace == <<"{">>
CloseBrace == <<"}">>

RECURSIVE Escape(_)
Escape(s) ==
  IF s = <<>> THEN <<>>
  ELSE IF Head(s) \in {"\"", "\\"} THEN <<"\\", Head(s)>> \o Escape(Tail(s))
  ELSE <<Head(s)>> \o Escape(Tail(s))

(* A faulty variant of Unescape: the escapes are left in the string *)
Verbatim(s) == s

RECURSIVE Unescape(_)
Unescape(s) ==
  IF s = <<>> THEN <<>>
  ELSE IF Head(s) = "\\" /\ Len(s) >= 2 THEN <<s[2]>> \o Unescape(Tail(Tail(s)))
  ELSE <<Head(s)>> \o Unescape(Tail(s))

(* One member of JSON.stringify's output; a member whose value is undefined is left out *)
Member(key, v) ==
  IF v = Undefined THEN <<>>
  ELSE IF Kind(v) = "string" THEN << <<key, "string", Escape(Chars(v))>> >>
  ELSE IF Kind(v) = "number" THEN << <<key, "number", Chars(v)>> >>
  ELSE << <<key, "null", <<>>>> >>

RecordKeys == <<"id", "type", "payload", "created_at", "filename">>

(* JSON.stringify(record, null, 2) *)
Stringify(record) ==
  <<OpenBrace>> \o Member("id", record.id) \o Member("type", record.type)
    \o Member("payload", record.payload) \o Member("created_at", record.created_at)
    \o Member("filename", record.filename) \o <<CloseBrace>>

(* JSON.parse: does the text parse, and the value of a key of the parsed object *)
Parses(text) ==
  /\ Len(text) >= 2
  /\ text[1] = OpenBrace
  /\ text[Len(text)] = CloseBrace
  /\ \A i \in 2..(Len(text) - 1) : Len(text[i]) = 3

Literal(tok) ==
  IF tok[2] = "string" THEN JStr(Unescape(tok[3]))
  ELSE IF tok[2] = "number" THEN JNum(tok[3])
  ELSE JNull

Field(text, key) ==
  LET at == {i \in 2..(Len(text) - 1) : text[i][1] = key} IN
  IF at = {} THEN Undefined
  ELSE Literal(text[CHOOSE i \in at : \A j \in at : j <= i])

Parse(text) == [k \in Range(RecordKeys) |-> Field(text, k)]

(* The null of readRecord *)
NoRecord == [id |-> Undefined]

(* readRecord on the text of a file *)
readRecord(text) ==
  IF ~Parses(text) THEN NoRecord
  ELSE IF Truthy(Field(text, "id")) /\ Truthy(Field(text, "created_at")) THEN Parse(text)
  ELSE NoRecord

----------------------------------------------------------------------------
(* Dates: toISOString is fixed-width, digits of the millisecond count then "Z" *)
ISO_WIDTH == 10

RECURSIVE Pad(_, _)
Pad(n, width) == IF width = 0 THEN <<>> ELSE Pad(n \div 10, width - 1) \o <<Digits[(n % 10) + 1]>>

toISOString(ms) == Pad(ms, ISO_WIDTH) \o <<"Z">>

DigitValue(c) == (CHOOSE i \in DOMAIN Digits : Digits[i] = c) - 1

(* The number written by the first n digits *)
RECURSIVE NumberTo(_, _)
NumberTo(ds, n) == IF n = 0 THEN 0 ELSE NumberTo(ds, n - 1) * 10 + DigitValue(ds[n])
Number(ds) == NumberTo(ds, Len(ds))

NaN == 0 - 1

HourMs == 60 * 60 * 1000

(* Date.parse: the instant of a text that is what toISOString writes (local time and
   "Z"), or of the same with an offset from UTC in hours in place of the "Z" (local
   time, "+", one digit); NaN for any other text *)
DateParse(s) ==
  IF /\ Len(s) = ISO_WIDTH + 1
     /\ s[Len(s)] = "Z"
     /\ \A i \in 1..ISO_WIDTH : s[i] \in Range(Digits)
  THEN Number(SubSeq(s, 1, ISO_WIDTH))
  ELSE IF /\ Len(s) = ISO_WIDTH + 2
          /\ s[ISO_WIDTH + 1] = "+"
          /\ \A i \in (1..ISO_WIDTH) \cup {ISO_WIDTH + 2} : s[i] \in Range(Digits)
          /\ Number(SubSeq(s, 1, ISO_WIDTH)) >= DigitValue(s[ISO_WIDTH + 2]) * HourMs
  THEN Number(SubSeq(s, 1, ISO_WIDTH)) - DigitValue(s[ISO_WIDTH + 2]) * HourMs
  ELSE NaN

----------------------------------------------------------------------------
(* Threads of control: the callers of the public operations, and one thread per
   store that runs executePruneCycle (the promise kept in pruneInFlight) *)
Stores == 1..NumStores
Callers == 1..NumCallers
Cyclers == {NumCallers + s : s \in Stores}
Threads == Callers \cup Cyclers
CyclerOf(s) == NumCallers + s
StoreOf(t) == IF t \in Callers THEN store[t] ELSE t - NumCallers

(* EvidenceConfig of each store instance *)
Config == [s \in Stores |-> [enabled |-> TRUE, max_age_days |-> 1, max_bundles |-> 2]]

NoLock == [ino |-> 0]
NoFile == <<>>
None == "none"
T0 == 172800000
MaxNow == T0 + MaxTicks * TickMs

DotJson == <<".", "j", "s", "o", "n">>
FileName(id) == id \o DotJson

(* The positions of acquireLock, and the positions inside withLock's work *)
AcquirePcs == {"open", "stat", "restat", "unlink", "check", "sleep"}
SavePcs == {"write", "writing", "wsleep", "rename", "cleanup"}
PrunePcs == {"readdir", "scanning", "deleting"}
RestPcs == {"idle", "done", "failed", "crashed"}
InFlight(t) == pc[t] \notin RestPcs

(* The bundles the callers pass to saveEvidence *)
Bundle(id, type, payload, created_at) ==
  [id |-> id, type |-> type, payload |-> payload, created_at |-> created_at]
TypeTest == JStr(<<"t", "e", "s", "t">>)
BundleA1 == Bundle(<<"a">>, TypeTest, JNum(<<"1">>), Undefined)
BundleA2 == Bundle(<<"a">>, TypeTest, JNum(<<"2">>), Undefined)
BundleB == Bundle(<<"b">>, TypeTest, JStr(<<"\"">>), Undefined)
(* Callers and stores are interchangeable: the first caller uses the first store, and
   the bundles are divided among the callers *)
BundlesOf(c) == IF c = 1 THEN {BundleA1, BundleB} ELSE {BundleA2}
StoresOf(c) == IF c = 1 THEN {1} ELSE Stores

NoBundle == Bundle(Undefined, Undefined, Undefined, Undefined)
NoRec == [id |-> <<>>, text |-> <<>>]
NoScan == [names |-> <<>>, out |-> <<>>, del |-> {}, at |-> 0]

NoEvents == [c \in Callers |-> {}]

(* The state after construction of the stores with the configurations cfg on a
   directory holding the record files dir and the lock marker left there, if any, with
   a number of faults counted as spent *)
StartAt(spent, cfg, dir, marker, left) ==
  /\ now = T0
  /\ config = cfg
  /\ lock = marker
  /\ files = dir
  /\ tmp = [c \in Callers |-> NoFile]
  /\ orphans = left
  /\ initState = [s \in Stores |-> IF s = 1 THEN "done" ELSE "pending"]
  /\ pruneInFlight = [s \in Stores |-> FALSE]
  /\ prunePending = [s \in Stores |-> FALSE]
  /\ reruns = [s \in Stores |-> 0]
  /\ sinceEnd = [s \in Stores |-> 0]
  /\ waiter = [s \in Stores |-> 0]
  /\ pc = [t \in Threads |-> "idle"]
  /\ store = [c \in Callers |-> 1]
  /\ op = [c \in Callers |-> None]
  /\ bundle = [c \in Callers |-> NoBundle]
  /\ rec = [c \in Callers |-> NoRec]
  /\ err = [t \in Threads |-> None]
  /\ attempt = [t \in Threads |-> 0]
  /\ elapsed = [t \in Threads |-> 0]
  /\ sleepLeft = [t \in Threads |-> 0]
  /\ stats = [t \in Threads |-> 0]
  /\ held = [t \in Threads |-> 0]
  /\ scan = [t \in Threads |-> NoScan]
  /\ result = [c \in Callers |-> <<>>]
  /\ hist = [ops |-> 0, faults |-> spent, overlap |-> FALSE,
             seq |-> [c \in Callers |-> 0], ev |-> NoEvents,
             runs |-> [s \in Stores |-> 0], log |-> [s \in Stores |-> None]]

(* The state after construction on a directory whose .tmp is empty *)
StartOn(spent, cfg, dir, marker) == StartAt(spent, cfg, dir, marker, 0)

(* The state after construction on a directory without a lock marker *)
StartWith(spent, cfg, dir) == StartOn(spent, cfg, dir, NoLock)

(* The state after construction on an empty directory *)
NoFiles == [n \in {} |-> NoFile]
Start(spent) == StartWith(spent, Config, NoFiles)

Init == Start(0)

----------------------------------------------------------------------------
(* The file system *)
Exists(name) == name \in DOMAIN files
PutFile(name, file) == [n \in DOMAIN files \cup {name} |-> IF n = name THEN file ELSE files[n]]
RemoveFiles(names) == [n \in DOMAIN files \ names |-> files[n]]
File(text) == [text |-> text, mtime |-> now]

(* History *)
Note(c, e) == [hist EXCEPT !.ev[c] = @ \cup {e}]
(* A fault of the environment (a failing system call), within the budget of the model *)
MayFail == hist.faults < MaxFaults
Fault(h) == [h EXCEPT !.faults = @ + 1]
Others(t) == {u \in Threads \ {t} : InFlight(u)}

(* A caller starts a public call: the staging file of its previous call, if one is
   left, stays in .tmp under its own name *)
Call(c, s, o, b) ==
  /\ pc[c] \in {"idle", "done", "failed"}
  /\ initState[s] # "crashed"
  /\ store' = [store EXCEPT ![c] = s]
  /\ op' = [op EXCEPT ![c] = o]
  /\ bundle' = [bundle EXCEPT ![c] = b]
  /\ rec' = [rec EXCEPT ![c] = NoRec]
  /\ err' = [err EXCEPT ![c] = None]
  /\ result' = [result EXCEPT ![c] = <<>>]
  /\ tmp' = [tmp EXCEPT ![c] = NoFile]
  /\ orphans' = IF tmp[c] = NoFile THEN orphans ELSE orphans + 1
  /\ hist' = [hist EXCEPT !.ops = @ + 1, !.ev[c] = {}, !.seq[c] = hist.ops + 1,
                          !.overlap = @ \/ Others(c) # {}]
  /\ UNCHANGED <<now, config, lock, files, initState, pruneInFlight, prunePending, reruns,
                 sinceEnd, waiter, attempt, elapsed, sleepLeft, stats, held, scan>>

(* The calls of a run of the model are counted: at most MaxOps of them *)
Begin(c, s, o, b) == hist.ops < MaxOps /\ Call(c, s, o, b)

(* A faulty variant of SaveEntry: the enabled flag is not looked at *)
SaveAnyway(enabled) == "awaitInit"
(* if (!this.config.enabled) return, lines 162-166 *)
SaveEntry(enabled) == IF enabled THEN "awaitInit" ELSE "done"

(* saveEvidence, lines 161-166: a disabled store returns at once *)
StartSave(c, s, b) ==
  /\ Begin(c, s, "save", b)
  /\ pc' = [pc EXCEPT ![c] = SaveEntry(config[s].enabled)]

(* record built by saveEvidence, lines 169-176 *)
BuildRecord(safeId, b, clock) ==
  [id |-> JStr(safeId), type |-> b.type, payload |-> b.payload,
   created_at |-> IF b.created_at = Undefined THEN JStr(toISOString(clock)) ELSE b.created_at,
   filename |-> JStr(FileName(safeId))]

(* A faulty variant of Settled: the call does not wait for the initialization *)
SettledAtOnce(s) == TRUE
(* await this.initPromise, lines 166, 195 and 204: the initialization has ended, well
   or not *)
Settled(s) == initState[s] \in {"done", "failed"}

(* saveEvidence, lines 166-184: after initPromise, up to the call of acquireLock *)
SaveBuild(c) ==
  /\ pc[c] = "awaitInit" /\ op[c] = "save"
  /\ Settled(store[c])
  /\ \E uuid \in UUIDs :
       LET n == normalizeId(bundle[c].id, uuid) IN
       IF initState[store[c]] = "failed"
       THEN /\ pc' = [pc EXCEPT ![c] = "failed"]
            /\ err' = [err EXCEPT ![c] = "EINIT"]
            /\ UNCHANGED rec
       ELSE IF ~n.ok
       THEN /\ pc' = [pc EXCEPT ![c] = "failed"]
            /\ err' = [err EXCEPT ![c] = "EVALIDATION"]
            /\ UNCHANGED rec
       ELSE /\ pc' = [pc EXCEPT ![c] = "open"]
            /\ rec' = [rec EXCEPT ![c] =
                         [id |-> n.id, text |-> Stringify(BuildRecord(n.id, bundle[c], now))]]
            /\ UNCHANGED err
  /\ attempt' = [attempt EXCEPT ![c] = 0]
  /\ elapsed' = [elapsed EXCEPT ![c] = 0]
  /\ UNCHANGED <<now, config, lock, files, tmp, orphans, initState, pruneInFlight, prunePending,
                 reruns, sinceEnd, waiter, store, op, bundle, sleepLeft, stats, held,
                 scan, result, hist>>

----------------------------------------------------------------------------
(* withLock and acquireLock, for the callers (saveEvidence) and the cyclers (pruneOnce) *)
storeVars == <<initState, pruneInFlight, prunePending, reruns, sinceEnd, waiter>>
callVars == <<store, op, bundle, rec, result>>
fsVars == <<files, tmp, orphans>>

(* Where a thread goes with the lock, and where a throw takes it *)
Work(t) == IF t \in Callers THEN "write" ELSE "readdir"
(* A faulty variant of Thrown: the work runs although acquireLock threw *)
ThrownIntoWork(t) == Work(t)
Thrown(t) == IF t \in Callers THEN "failed" ELSE "caught"
Returned(t) == IF t \in Callers THEN "done" ELSE "afterRun"

(* A faulty variant of IsStale: no marker is ever taken to be stale *)
NeverStale(age) == FALSE
(* Date.now() - mtimeMs > LOCK_TIMEOUT_MS, lines 256 and 262 *)
IsStale(age) == age > LOCK_TIMEOUT_MS
(* A faulty variant of TimedOut: the budget is taken to be the stale-lock timeout *)
TimedOutEarly(ms) == ms > LOCK_TIMEOUT_MS
(* A faulty variant of TimedOut: the total budget is never checked *)
NeverTimedOut(ms) == FALSE
(* elapsed > LOCK_TOTAL_TIMEOUT_MS, line 269 *)
TimedOut(ms) == ms > LOCK_TOTAL_TIMEOUT_MS
(* lockBackoffs[Math.min(attempt, length - 1)], line 274 *)
Backoff(n) == LOCK_BACKOFFS_MS[Min(n, Len(LOCK_BACKOFFS_MS) - 1) + 1]

(* fs.open(lockPath, 'wx') and handle.write, lines 247-249.  The marker's inode is
   named after the thread that created it *)
LockOpen(t) ==
  /\ pc[t] = "open"
  /\ \/ /\ lock = NoLock
        /\ lock' = [ino |-> t, age |-> 0]
        /\ \/ /\ held' = [held EXCEPT ![t] = t]
              /\ pc' = [pc EXCEPT ![t] = Work(t)]
              /\ UNCHANGED <<err, hist>>
           \/ /\ MayFail
              /\ pc' = [pc EXCEPT ![t] = Thrown(t)]
              /\ err' = [err EXCEPT ![t] = "EOPEN"]
              /\ hist' = Fault(hist)
              /\ UNCHANGED held
        /\ attempt' = [attempt EXCEPT ![t] = 0]
        /\ elapsed' = [elapsed EXCEPT ![t] = 0]
     \/ /\ lock # NoLock
        /\ pc' = [pc EXCEPT ![t] = "stat"]
        /\ UNCHANGED <<lock, held, err, attempt, elapsed, hist>>
     \/ /\ MayFail
        /\ pc' = [pc EXCEPT ![t] = Thrown(t)]
        /\ err' = [err EXCEPT ![t] = "EOPEN"]
        /\ hist' = Fault(hist)
        /\ attempt' = [attempt EXCEPT ![t] = 0]
        /\ elapsed' = [elapsed EXCEPT ![t] = 0]
        /\ UNCHANGED <<lock, held>>
  /\ UNCHANGED <<now, config, fsVars, storeVars, callVars, sleepLeft, stats, scan>>

(* the first fs.stat, lines 255-256 *)
LockStat(t) ==
  /\ pc[t] = "stat"
  /\ IF lock # NoLock /\ IsStale(lock.age)
     THEN /\ stats' = [stats EXCEPT ![t] = lock.ino]
          /\ pc' = [pc EXCEPT ![t] = "restat"]
     ELSE /\ pc' = [pc EXCEPT ![t] = "check"]
          /\ UNCHANGED stats
  /\ UNCHANGED <<now, config, lock, fsVars, storeVars, callVars, err, attempt, elapsed, sleepLeft,
                 held, scan, hist>>

(* the second fs.stat and the comparison of inode and age, lines 257-263 *)
SameStale(t) == lock # NoLock /\ lock.ino = stats[t] /\ IsStale(lock.age)

LockReStat(t) ==
  /\ pc[t] = "restat"
  /\ pc' = [pc EXCEPT ![t] = IF SameStale(t) THEN "unlink" ELSE "check"]
  /\ UNCHANGED <<now, config, lock, fsVars, storeVars, callVars, err, attempt, elapsed, sleepLeft,
                 stats, held, scan, hist>>

(* fs.unlink(lockPath).catch(() => undefined), line 264: removes the marker that is
   there now, or fails and is ignored *)
LockUnlink(t) ==
  /\ pc[t] = "unlink"
  /\ \/ lock' = NoLock /\ UNCHANGED hist
     \/ lock # NoLock /\ MayFail /\ lock' = lock /\ hist' = Fault(hist)
  /\ pc' = [pc EXCEPT ![t] = "check"]
  /\ UNCHANGED <<now, config, fsVars, storeVars, callVars, err, attempt, elapsed, sleepLeft,
                 stats, held, scan>>

(* the budget check and the backoff sleep, lines 268-275 *)
LockCheck(t) ==
  /\ pc[t] = "check"
  /\ IF TimedOut(elapsed[t])
     THEN /\ pc' = [pc EXCEPT ![t] = Thrown(t)]
          /\ err' = [err EXCEPT ![t] = "ELOCK"]
          /\ attempt' = [attempt EXCEPT ![t] = 0]
          /\ elapsed' = [elapsed EXCEPT ![t] = 0]
          /\ UNCHANGED sleepLeft
     ELSE /\ pc' = [pc EXCEPT ![t] = "sleep"]
          /\ sleepLeft' = [sleepLeft EXCEPT ![t] = Backoff(attempt[t])]
          /\ UNCHANGED <<err, attempt, elapsed>>
  /\ stats' = [stats EXCEPT ![t] = 0]
  /\ UNCHANGED <<now, config, lock, fsVars, storeVars, callVars, held, scan, hist>>

(* the sleep is over: attempt += 1, line 276, and the loop tries again; attempt is kept
   up to the index of the last backoff, which is all that line 274 reads of it *)
LockWake(t) ==
  /\ pc[t] = "sleep"
  /\ sleepLeft[t] = 0
  /\ pc' = [pc EXCEPT ![t] = "open"]
  /\ attempt' = [attempt EXCEPT ![t] = Min(@ + 1, Len(LOCK_BACKOFFS_MS) - 1)]
  /\ UNCHANGED <<now, config, lock, fsVars, storeVars, callVars, err, elapsed, sleepLeft, stats,
                 held, scan, hist>>

(* withLock's finally, lines 236-237: close the handle, unlink lockPath, errors ignored *)
Release(t) ==
  /\ pc[t] = "release"
  /\ \E fails \in {FALSE} \cup {f \in {TRUE} : lock # NoLock /\ MayFail} :
       /\ lock' = IF fails THEN lock ELSE NoLock
       /\ hist' = LET h == IF t \in Callers THEN Note(t, "released") ELSE hist
                  IN  IF fails THEN Fault(h) ELSE h
  /\ held' = [held EXCEPT ![t] = 0]
  /\ attempt' = [attempt EXCEPT ![t] = 0]
  /\ pc' = [pc EXCEPT ![t] = IF err[t] = None THEN Returned(t) ELSE Thrown(t)]
  /\ UNCHANGED <<now, config, fsVars, storeVars, callVars, err, elapsed, sleepLeft, stats, scan>>

----------------------------------------------------------------------------
(* The work of saveEvidence under the lock, lines 185-190, and writeWithRetries *)

(* What a reader finds in a file that fs.writeFile has opened and not yet finished *)
Partial(text) == {SubSeq(text, 1, Len(text) - 1)}

(* Faulty variants of RetryDelay and Retries: a delay that grows by 50 ms, one retry
   more, and a retry after any error *)
RetryDelayLinear(n) == 50 * (n + 1)
RetriesOnceMore(n, code) == n <= maxRetries /\ code \in {"EMFILE", "ENFILE"}
RetriesAnyError(n, code) == n < maxRetries
(* sleep(50 * 2 ** attempt), line 433 *)
RetryDelay(n) == 50 * 2 ^ n
(* the "too many open files" errors, line 431 *)
Transient == {"EMFILE", "ENFILE"}
(* attempt < maxRetries and the error is EMFILE or ENFILE, lines 428-432 *)
Retries(n, code) == n < maxRetries /\ code \in Transient

(* fs.writeFile begins, line 425: it opens the staging file, or fails to, with one of
   the error codes *)
WriteAttempt(c, codes) ==
  /\ pc[c] = "write"
  /\ \/ /\ \E part \in Partial(rec[c].text) : tmp' = [tmp EXCEPT ![c] = File(part)]
        /\ pc' = [pc EXCEPT ![c] = "writing"]
        /\ UNCHANGED <<err, sleepLeft, hist>>
     \/ \E code \in codes :
          /\ MayFail \/ (code \in Transient /\ attempt[c] > 0)
          /\ hist' = IF attempt[c] > 0 /\ code \in Transient THEN Note(c, code)
                     ELSE Fault(Note(c, code))
          /\ IF Retries(attempt[c], code)
             THEN /\ pc' = [pc EXCEPT ![c] = "wsleep"]
                  /\ sleepLeft' = [sleepLeft EXCEPT ![c] = RetryDelay(attempt[c])]
                  /\ UNCHANGED err
             ELSE /\ pc' = [pc EXCEPT ![c] = "cleanup"]
                  /\ err' = [err EXCEPT ![c] = code]
                  /\ UNCHANGED sleepLeft
          /\ UNCHANGED tmp
  /\ UNCHANGED <<now, config, lock, files, orphans, storeVars, callVars, attempt, elapsed, stats,
                 held, scan>>

WriteBegin(c) == WriteAttempt(c, {"EMFILE", "EIO"})

(* the retry sleep is over: attempt += 1, line 434 *)
WriteWake(c) ==
  /\ pc[c] = "wsleep"
  /\ sleepLeft[c] = 0
  /\ pc' = [pc EXCEPT ![c] = "write"]
  /\ attempt' = [attempt EXCEPT ![c] = @ + 1]
  /\ UNCHANGED <<now, config, lock, fsVars, storeVars, callVars, err, elapsed, sleepLeft, stats,
                 held, scan, hist>>

(* fs.writeFile ends: the whole content is in the file, or the write failed part-way.
   A staging file unlinked meanwhile stays unlinked *)
WriteEnd(c) ==
  /\ pc[c] = "writing"
  /\ \/ /\ tmp' = [tmp EXCEPT ![c] = IF @ = NoFile THEN NoFile ELSE File(rec[c].text)]
        /\ pc' = [pc EXCEPT ![c] = "rename"]
        /\ hist' = Note(c, "wrote")
        /\ UNCHANGED err
     \/ /\ MayFail
        /\ pc' = [pc EXCEPT ![c] = "cleanup"]
        /\ err' = [err EXCEPT ![c] = "EIO"]
        /\ hist' = Fault(hist)
        /\ UNCHANGED tmp
  /\ UNCHANGED <<now, config, lock, files, orphans, storeVars, callVars, attempt, elapsed,
                 sleepLeft, stats, held, scan>>

(* Faulty variants of the two definitions below, used to test that the properties of
   the writer depend on them: a rename that does not wait for the write, a failure path
   that skips the cleanup, and a rename that is tried again after it failed *)
RenameEarly(c) == pc[c] \in {"writing", "rename"}
SkipCleanup(ok) == IF ok THEN "cleanup" ELSE "release"
RetryRename(ok) == IF ok THEN "cleanup" ELSE "rename"

(* fs.rename runs once writeWithRetries has resolved, lines 186-187 *)
RenameReady(c) == pc[c] = "rename"
(* the finally block runs after the rename, whether it threw or not, lines 188-190 *)
AfterRename(ok) == "cleanup"

(* fs.rename(tmpPath, targetPath), line 187 *)
Rename(c) ==
  /\ RenameReady(c)
  /\ \/ /\ tmp[c] # NoFile
        /\ files' = PutFile(FileName(rec[c].id), tmp[c])
        /\ tmp' = [tmp EXCEPT ![c] = NoFile]
        /\ pc' = [pc EXCEPT ![c] = AfterRename(TRUE)]
        /\ hist' = Note(c, "renamed")
        /\ UNCHANGED err
     \/ /\ MayFail \/ tmp[c] = NoFile
        /\ pc' = [pc EXCEPT ![c] = AfterRename(FALSE)]
        /\ err' = [err EXCEPT ![c] = "ERENAME"]
        /\ hist' = IF tmp[c] = NoFile THEN Note(c, "renameFailed")
                   ELSE Fault(Note(c, "renameFailed"))
        /\ UNCHANGED <<files, tmp>>
  /\ UNCHANGED <<now, config, lock, orphans, storeVars, callVars, attempt, elapsed, sleepLeft,
                 stats, held, scan>>

(* safeUnlink(tmpPath), lines 189 and 442-448: the unlink may fail, which is ignored *)
Cleanup(c) ==
  /\ pc[c] = "cleanup"
  /\ \/ /\ tmp' = [tmp EXCEPT ![c] = NoFile]
        /\ hist' = Note(c, "cleaned")
     \/ /\ tmp[c] # NoFile /\ MayFail
        /\ hist' = Fault([Note(c, "cleaned") EXCEPT !.ev[c] = @ \cup {"unlinkFailed"}])
        /\ UNCHANGED tmp
  /\ pc' = [pc EXCEPT ![c] = "release"]
  /\ UNCHANGED <<now, config, lock, files, orphans, storeVars, callVars, err, attempt, elapsed,
                 sleepLeft, stats, held, scan>>

----------------------------------------------------------------------------
(* The constructor's initialize(), lines 208-213 and 402-418: mkdir, then unlink up to
   MAX_TMP_CLEANUP_FILES entries of .tmp *)
Staged == {c \in Callers : tmp[c] # NoFile}

(* A faulty variant of Attempts: the limit is one higher *)
AttemptsOneMore(n) == Min(n, MAX_TMP_CLEANUP_FILES + 1)
(* the loop of cleanupTmpDirectory, lines 409-417: an unlink for each entry until
   cleaned reaches MAX_TMP_CLEANUP_FILES *)
Attempts(n) == Min(n, MAX_TMP_CLEANUP_FILES)

(* The warnings of cleanupTmpDirectory, lines 411 and 415 *)
WarnLimit == "tmp cleanup reached file limit"
WarnRemove == "failed to remove tmp file"

(* cleanupTmpDirectory, lines 402-418, on the entries that readdir returned: `taken`
   staging files of the callers and `k` other leftovers are unlinked, of which the
   unlinks of `fs` and of `fo` fail; a warning is logged for each failure, and one
   when entries are left at the limit *)
CleanupTmp(s, taken, k, fs, fo) ==
  LET n == Cardinality(Staged) + orphans IN
  /\ tmp' = [c \in Callers |-> IF c \in taken \ fs THEN NoFile ELSE tmp[c]]
  /\ orphans' = orphans - (k - fo)
  /\ hist' = [hist EXCEPT !.faults = @ + Cardinality(fs) + fo,
                          !.log[s] = IF n > Cardinality(taken) + k THEN WarnLimit
                                     ELSE IF Cardinality(fs) + fo > 0 THEN WarnRemove
                                     ELSE @]

(* initialize, lines 208-213: mkdir, then cleanupTmpDirectory, in which the readdir of
   .tmp may fail (no entries, the error is swallowed) and each unlink may fail; a
   failing mkdir rejects initPromise *)
Initialize(s, failures) ==
  /\ initState[s] = "pending"
  /\ \/ /\ initState' = [initState EXCEPT ![s] = "done"]
        /\ \/ \E taken \in SUBSET Staged, k \in 0..Min(orphans, MAX_TMP_CLEANUP_FILES) :
                /\ Cardinality(taken) + k = Attempts(Cardinality(Staged) + orphans)
                /\ \E fs \in SUBSET taken, fo \in 0..Min(k, MaxFaults) :
                     /\ Cardinality(fs) + fo <= (IF failures THEN MaxFaults - hist.faults ELSE 0)
                     /\ CleanupTmp(s, taken, k, fs, fo)
           \/ /\ failures /\ MayFail
              /\ hist' = Fault(hist)
              /\ UNCHANGED <<tmp, orphans>>
     \/ /\ MayFail
        /\ initState' = [initState EXCEPT ![s] = "failed"]
        /\ hist' = Fault(hist)
        /\ UNCHANGED <<tmp, orphans>>
  /\ UNCHANGED <<now, config, lock, files, pruneInFlight, prunePending, reruns, sinceEnd, waiter,
                 pc, callVars, err, attempt, elapsed, sleepLeft, stats, held, scan>>

(* The initialization in which the cleanup meets no failure, and the one in which it may *)
InitStore(s) == Initialize(s, FALSE)
InitFailing(s) == Initialize(s, TRUE)

(* The process of a store instance dies: its calls stop where they are, the lock marker
   and the staging files stay.  A crash counts as a fault *)
Crash(s) ==
  /\ MayFail
  /\ initState[s] # "crashed"
  /\ \E t \in Threads : StoreOf(t) = s /\ InFlight(t)
  /\ pc' = [t \in Threads |-> IF StoreOf(t) = s /\ InFlight(t) THEN "crashed" ELSE pc[t]]
  /\ initState' = [initState EXCEPT ![s] = "crashed"]
  /\ hist' = Fault(hist)
  /\ UNCHANGED <<now, config, lock, fsVars, pruneInFlight, prunePending, reruns, sinceEnd, waiter,
                 callVars, err, attempt, elapsed, sleepLeft, stats, held, scan>>

(* TickMs milliseconds pass *)
(* Time passes: the clock, the age of the marker and the timers of the threads advance *)
Elapse(ms) ==
  /\ now' = Min(now + ms, MaxNow)
  /\ lock' = IF lock = NoLock \/ lock.age > LOCK_TIMEOUT_MS THEN lock
             ELSE [lock EXCEPT !.age = @ + ms]
  /\ elapsed' = [t \in Threads |->
                   IF pc[t] \in AcquirePcs /\ elapsed[t] <= LOCK_TOTAL_TIMEOUT_MS
                   THEN elapsed[t] + ms ELSE elapsed[t]]
  /\ sleepLeft' = [t \in Threads |-> Max(0, sleepLeft[t] - ms)]
  /\ sinceEnd' = [s \in Stores |->
                    IF pruneInFlight[s] /\ sinceEnd[s] < PRUNE_MIN_INTERVAL_MS
                    THEN sinceEnd[s] + ms ELSE sinceEnd[s]]
  /\ UNCHANGED <<config, fsVars, initState, pruneInFlight, prunePending, reruns, waiter,
                 pc, callVars, err, attempt, stats, held, scan, hist>>

(* A step of the clock *)
Tick == Elapse(TickMs)


----------------------------------------------------------------------------
(* Ordering of strings: String.prototype.localeCompare on the characters the model
   uses (punctuation before digits before letters, lower case before upper case) *)
Collation == <<" ", "_", "-", ":", ".", "\"">> \o Digits
             \o [i \in 1..52 |-> IF i % 2 = 1 THEN Lower[(i + 1) \div 2] ELSE Upper[i \div 2]]
Rank(c) == IF c \in Range(Collation) THEN CHOOSE i \in DOMAIN Collation : Collation[i] = c
           ELSE 0

RECURSIVE localeCompare(_, _)
localeCompare(a, b) ==
  IF a = <<>> /\ b = <<>> THEN 0
  ELSE IF a = <<>> THEN 0 - 1
  ELSE IF b = <<>> THEN 1
  ELSE IF Rank(Head(a)) < Rank(Head(b)) THEN 0 - 1
  ELSE IF Rank(Head(a)) > Rank(Head(b)) THEN 1
  ELSE localeCompare(Tail(a), Tail(b))

(* Array.prototype.sort is stable: an element is put after the elements that the
   comparator does not order after it *)
NewerFirst(a, b) == localeCompare(Chars(b.created_at), Chars(a.created_at)) <= 0

RECURSIVE InsertNewer(_, _)
InsertNewer(x, sorted) ==
  IF sorted = <<>> THEN <<x>>
  ELSE IF NewerFirst(sorted[Len(sorted)], x) THEN Append(sorted, x)
  ELSE Append(InsertNewer(x, SubSeq(sorted, 1, Len(sorted) - 1)), sorted[Len(sorted)])

(* sort((a, b) => b.created_at.localeCompare(a.created_at)), line 200 *)
RECURSIVE SortNewerFirst(_)
SortNewerFirst(seq) ==
  IF seq = <<>> THEN <<>>
  ELSE InsertNewer(seq[Len(seq)], SortNewerFirst(SubSeq(seq, 1, Len(seq) - 1)))

LaterFirst(a, b) == b.timestamp - a.timestamp <= 0

RECURSIVE InsertLater(_, _)
InsertLater(x, sorted) ==
  IF sorted = <<>> THEN <<x>>
  ELSE IF LaterFirst(sorted[Len(sorted)], x) THEN Append(sorted, x)
  ELSE Append(InsertLater(x, SubSeq(sorted, 1, Len(sorted) - 1)), sorted[Len(sorted)])

(* sort((a, b) => b.timestamp - a.timestamp), line 355 *)
RECURSIVE SortLaterFirst(_)
SortLaterFirst(seq) ==
  IF seq = <<>> THEN <<>>
  ELSE InsertLater(seq[Len(seq)], SortLaterFirst(SubSeq(seq, 1, Len(seq) - 1)))

(* fs.readdir of evidence/: the names in the directory's order, here by name *)
RECURSIVE NamesInOrder(_)
NamesInOrder(names) ==
  IF names = {} THEN <<>>
  ELSE LET first == CHOOSE n \in names : \A m \in names : localeCompare(n, m) <= 0
       IN  <<first>> \o NamesInOrder(names \ {first})

(* A faulty variant of EndsWithJson: every name passes *)
EndsWithAnything(name) == TRUE
(* entry.name.endsWith('.json'), line 372 *)
EndsWithJson(name) ==
  Len(name) >= Len(DotJson) /\ SubSeq(name, Len(name) - Len(DotJson) + 1, Len(name)) = DotJson

(* What readdir finds directly under evidence/: the files, the .tmp directory, and the
   lock marker while there is one *)
LockName == <<".", "l", "o", "c", "k">>
TmpName == <<".", "t", "m", "p">>
Listing == DOMAIN files \cup {TmpName} \cup (IF lock = NoLock THEN {} ELSE {LockName})
(* The entries in the order readdir returns them: the files, then .tmp and the marker *)
Entries ==
  NamesInOrder(DOMAIN files) \o <<TmpName>> \o (IF lock = NoLock THEN <<>> ELSE <<LockName>>)
(* entry.isFile(), line 369 *)
isFile(name) == name # TmpName
(* fs.stat(absolute) finds the entry, line 378 *)
Present(name) == IF name = LockName THEN lock # NoLock ELSE Exists(name)

(* scanEvidenceFiles, lines 363-386: the entries of the names read by readdir; a name
   whose file is gone by the time of the stat is skipped; the record of a file that
   cannot be read, and of the marker (it holds pid and createdAt, no id), is null *)
RECURSIVE ScanEntriesOf(_, _)
ScanEntriesOf(names, unreadable) ==
  IF names = <<>> THEN <<>>
  ELSE LET n == Head(names) IN
       (IF isFile(n) /\ EndsWithJson(n) /\ Present(n)
        THEN << [path |-> n,
                 mtime |-> IF n = LockName THEN now ELSE files[n].mtime,
                 record |-> IF n \in unreadable \/ n = LockName THEN NoRecord
                            ELSE readRecord(files[n].text)] >>
        ELSE <<>>) \o ScanEntriesOf(Tail(names), unreadable)

(* The entries of a scan in which every file could be read *)
ScanEntries(names) == ScanEntriesOf(names, {})

(* listEvidence, lines 197-200: the parsed records, newest first *)
RECURSIVE Records(_)
Records(entries) ==
  IF entries = <<>> THEN <<>>
  ELSE (IF Head(entries).record = NoRecord THEN <<>> ELSE <<Head(entries).record>>)
       \o Records(Tail(entries))

ListResult(entries) == SortNewerFirst(Records(entries))

(* pruneOnce, lines 330-358: the paths to delete *)
DayMs == 24 * 60 * 60 * 1000
Timestamp(e) == LET createdAt == DateParse(Chars(e.record.created_at))
                IN  IF createdAt = NaN THEN e.mtime ELSE createdAt
(* A faulty variant of TooOld: a record whose age equals the budget is too old *)
TooOldInclusive(e, clock, cfg) ==
  cfg.max_age_days * DayMs > 0 /\ clock - Timestamp(e) >= cfg.max_age_days * DayMs
TooOld(e, clock, cfg) ==
  cfg.max_age_days * DayMs > 0 /\ clock - Timestamp(e) > cfg.max_age_days * DayMs

RECURSIVE Kept(_, _, _)
Kept(entries, clock, cfg) ==
  IF entries = <<>> THEN <<>>
  ELSE LET e == Head(entries) IN
       (IF e.record = NoRecord \/ TooOld(e, clock, cfg) THEN <<>>
        ELSE << [path |-> e.path, timestamp |-> Timestamp(e)] >>)
       \o Kept(Tail(entries), clock, cfg)

(* A faulty variant of Marked: an entry without a record is left alone *)
MarkedIfOld(e, clock, cfg) == e.record # NoRecord /\ TooOld(e, clock, cfg)
(* toDelete.add(entry.path) in the loop of pruneOnce, lines 335-347 *)
Marked(e, clock, cfg) == e.record = NoRecord \/ TooOld(e, clock, cfg)

ToDelete(entries, clock, cfg) ==
  LET kept == Kept(entries, clock, cfg)
      sorted == SortLaterFirst(kept)
  IN  {entries[i].path : i \in {j \in DOMAIN entries :
           Marked(entries[j], clock, cfg)}}
      \cup (IF Len(kept) > cfg.max_bundles
            THEN {sorted[i].path : i \in (cfg.max_bundles + 1)..Len(sorted)}
            ELSE {})

----------------------------------------------------------------------------
(* listEvidence, lines 194-201 *)
StartList(c, s) ==
  /\ Begin(c, s, "list", bundle[c])
  /\ pc' = [pc EXCEPT ![c] = "awaitInit"]

(* A faulty variant of ListWork: the scan of listEvidence is run through withLock *)
ListUnderLock(c) == "open"
(* listEvidence calls scanEvidenceFiles directly, line 196 *)
ListWork(c) == "readdir"

(* after initPromise: scanEvidenceFiles begins with fs.readdir, lines 195-196 and 365 *)
ListBegin(c) ==
  /\ pc[c] = "awaitInit" /\ op[c] = "list"
  /\ Settled(store[c])
  /\ IF initState[store[c]] = "failed"
     THEN /\ pc' = [pc EXCEPT ![c] = "failed"]
          /\ err' = [err EXCEPT ![c] = "EINIT"]
     ELSE /\ pc' = [pc EXCEPT ![c] = ListWork(c)]
          /\ UNCHANGED err
  /\ UNCHANGED <<now, config, lock, fsVars, storeVars, callVars, attempt, elapsed, sleepLeft,
                 stats, held, scan, hist>>

(* fs.readdir(evidenceDir).catch(() => []), line 365 *)
ScanReaddir(t) ==
  /\ pc[t] = "readdir"
  /\ \/ /\ scan' = [scan EXCEPT ![t].names = Entries]
        /\ UNCHANGED hist
     \/ /\ MayFail
        /\ scan' = [scan EXCEPT ![t].names = <<>>]
        /\ hist' = Fault(hist)
  /\ pc' = [pc EXCEPT ![t] = "scanning"]
  /\ UNCHANGED <<now, config, lock, fsVars, storeVars, callVars, err, attempt, elapsed, sleepLeft,
                 stats, held>>

(* The files whose read may fail during a scan: none, or up to the fault budget *)
Readable(t) == {{}}
Unreadable(t) ==
  {U \in SUBSET (DOMAIN files \cap Range(scan[t].names)) :
     Cardinality(U) <= MaxFaults - hist.faults}

(* the loop of scanEvidenceFiles, lines 368-383, then what the caller does with the
   entries: listEvidence sorts the records, pruneOnce decides what to delete *)
Scan(t, failing) ==
  /\ pc[t] = "scanning"
  /\ \E unreadable \in failing :
     \E entries \in {ScanEntriesOf(scan[t].names, unreadable)},
        faults \in {hist.faults + Cardinality(unreadable)} :
     IF t \in Callers
     THEN /\ result' = [result EXCEPT ![t] = ListResult(entries)]
          /\ pc' = [pc EXCEPT ![t] = "done"]
          /\ scan' = [scan EXCEPT ![t] = NoScan]
          /\ hist' = [hist EXCEPT !.faults = faults]
     ELSE /\ scan' = [scan EXCEPT ![t] =
                        [names |-> <<>>, out |-> <<>>,
                         del |-> ToDelete(entries, now, config[StoreOf(t)]),
                         at |-> now]]
          /\ pc' = [pc EXCEPT ![t] = "deleting"]
          /\ hist' = [hist EXCEPT !.runs[StoreOf(t)] = @ + 1, !.faults = faults]
          /\ UNCHANGED result
  /\ UNCHANGED <<now, config, lock, fsVars, storeVars, store, op, bundle, rec, err, attempt,
                 elapsed, sleepLeft, stats, held>>

(* A scan in which every read succeeds, and one in which reads may fail *)
ScanRead(t) == Scan(t, Readable(t))
ScanFailing(t) == Scan(t, Unreadable(t))

(* A faulty variant of Unlinked: the first failure stops the other unlinks *)
UnlinkedUntilFailure(marked, failing) == IF failing = {} THEN marked ELSE {}
(* Promise.all over safeUnlink, lines 360 and 442-448: every marked path is unlinked,
   whatever becomes of the others *)
Unlinked(marked, failing) == marked \ failing

(* Promise.all of the safeUnlink calls, line 360: each unlink may fail and is ignored *)
PruneDelete(t) ==
  /\ pc[t] = "deleting"
  /\ \E failing \in SUBSET scan[t].del :
       /\ Cardinality(failing) <= MaxFaults - hist.faults
       /\ files' = RemoveFiles(Unlinked(scan[t].del, failing))
       /\ lock' = IF LockName \in Unlinked(scan[t].del, failing) THEN NoLock ELSE lock
       /\ hist' = [hist EXCEPT !.faults = @ + Cardinality(failing \cap Listing)]
  /\ scan' = [scan EXCEPT ![t] = NoScan]
  /\ pc' = [pc EXCEPT ![t] = "release"]
  /\ UNCHANGED <<now, config, tmp, orphans, storeVars, callVars, err, attempt, elapsed,
                 sleepLeft, stats, held>>

----------------------------------------------------------------------------
(* pruneStaleBundles, runPruneCycle and executePruneCycle, lines 203-206 and 281-326 *)
StartPrune(c, s) ==
  /\ Begin(c, s, "prune", bundle[c])
  /\ pc' = [pc EXCEPT ![c] = "awaitInit"]

(* The cycle starts its first or next run: prunePending = false, then withLock,
   lines 295-297 *)
RunStarts(s, pcs) == [pcs EXCEPT ![CyclerOf(s)] = "open"]

(* A faulty variant of Running: a cycle in flight is not seen *)
NotRunning(s) == FALSE
(* if (this.pruneInFlight), line 282 *)
Running(s) == pruneInFlight[s]

(* A faulty variant of Joined: the call awaits although it started no cycle *)
Awaits(c) == "awaitCycle"
(* this.prunePending = true; return, lines 283-284: the call resolves *)
Joined(c) == "done"

(* A faulty variant of Awaited: the call that starts a cycle does not await it *)
NotAwaited(c) == "done"
(* await this.pruneInFlight, line 289 *)
Awaited(c) == "awaitCycle"

(* runPruneCycle, lines 282-289, with the synchronous start of executePruneCycle *)
PruneBegin(c) ==
  LET s == store[c] IN
  /\ pc[c] = "awaitInit" /\ op[c] = "prune"
  /\ Settled(s)
  /\ IF initState[s] = "failed"
     THEN /\ pc' = [pc EXCEPT ![c] = "failed"]
          /\ err' = [err EXCEPT ![c] = "EINIT"]
          /\ UNCHANGED <<pruneInFlight, prunePending, reruns, waiter, hist>>
     ELSE IF Running(s)
     THEN /\ prunePending' = [prunePending EXCEPT ![s] = TRUE]
          /\ pc' = [pc EXCEPT ![c] = Joined(c)]
          /\ UNCHANGED <<err, pruneInFlight, reruns, waiter, hist>>
     ELSE /\ pruneInFlight' = [pruneInFlight EXCEPT ![s] = TRUE]
          /\ prunePending' = [prunePending EXCEPT ![s] = FALSE]
          /\ reruns' = [reruns EXCEPT ![s] = 0]
          /\ waiter' = [waiter EXCEPT ![s] = c]
          /\ pc' = RunStarts(s, [pc EXCEPT ![c] = Awaited(c)])
          /\ err' = [err EXCEPT ![CyclerOf(s)] = None]
          /\ hist' = [hist EXCEPT !.runs[s] = 0, !.log[s] = None]
  /\ UNCHANGED <<now, config, lock, fsVars, initState, sinceEnd, callVars, attempt, elapsed,
                 sleepLeft, stats, held, scan>>

(* Faulty variants of Reruns: no cap, a cap one higher, no rerun at all *)
RerunsUncapped(pending, n) == pending
RerunsOnceMore(pending, n) == pending /\ n <= PRUNE_RERUN_CAP
NeverReruns(pending, n) == FALSE
(* may the cycle run again: prunePending and reruns < PRUNE_RERUN_CAP, lines 304-312 *)
Reruns(pending, n) == pending /\ n < PRUNE_RERUN_CAP

(* A faulty variant of Spacing: no sleep between the runs *)
NoSpacing(elapsedSinceEnd) == 0
(* the spacing sleep, lines 315-318 *)
Spacing(elapsedSinceEnd) ==
  IF elapsedSinceEnd < PRUNE_MIN_INTERVAL_MS THEN PRUNE_MIN_INTERVAL_MS - elapsedSinceEnd ELSE 0

(* The warnings of executePruneCycle, lines 300 and 309 *)
WarnFailed == "prune failed"
WarnCap == "rerun cap reached"

(* The end of executePruneCycle, lines 321-325, after the warning if there was one:
   pruneInFlight = null, the awaiting caller resolves, and a request left pending starts
   a new cycle that nobody awaits *)
CycleEnds(k, pending, warning) ==
  LET s == StoreOf(k) IN
  /\ hist' = [hist EXCEPT !.runs[s] = 0, !.log[s] = warning]
  /\ waiter' = [waiter EXCEPT ![s] = 0]
  /\ reruns' = [reruns EXCEPT ![s] = 0]
  /\ prunePending' = [prunePending EXCEPT ![s] = FALSE]
  /\ pruneInFlight' = [pruneInFlight EXCEPT ![s] = pending]
  /\ err' = [err EXCEPT ![k] = None]
  /\ pc' = [t \in Threads |->
              IF t = k THEN (IF pending THEN "open" ELSE "idle")
              ELSE IF t = waiter[s] /\ pc[t] = "awaitCycle" THEN "done"
              ELSE pc[t]]
  /\ UNCHANGED sleepLeft

(* after withLock resolved, lines 298-318 *)
CycleNext(k) ==
  LET s == StoreOf(k) IN
  /\ pc[k] = "afterRun"
  /\ sinceEnd' = [sinceEnd EXCEPT ![s] = 0]
  /\ IF Reruns(prunePending[s], reruns[s])
     THEN /\ reruns' = [reruns EXCEPT ![s] = @ + 1]
          /\ sleepLeft' = [sleepLeft EXCEPT ![k] = Spacing(0)]
          /\ pc' = [pc EXCEPT ![k] = "psleep"]
          /\ UNCHANGED <<pruneInFlight, prunePending, waiter, err, hist>>
     ELSE CycleEnds(k, FALSE, IF prunePending[s] THEN WarnCap ELSE None)
  /\ UNCHANGED <<now, config, lock, fsVars, initState, callVars, attempt, elapsed, stats, held,
                 scan>>

(* the catch of executePruneCycle, lines 299-301: warn and break *)
CycleCatch(k) ==
  /\ pc[k] = "caught"
  /\ CycleEnds(k, prunePending[StoreOf(k)], WarnFailed)
  /\ UNCHANGED <<now, config, lock, fsVars, initState, sinceEnd, callVars, attempt, elapsed,
                 stats, held, scan>>

(* the spacing sleep is over, line 317: the loop starts the next run *)
PruneWake(k) ==
  /\ pc[k] = "psleep"
  /\ sleepLeft[k] = 0
  /\ prunePending' = [prunePending EXCEPT ![StoreOf(k)] = FALSE]
  /\ pc' = RunStarts(StoreOf(k), pc)
  /\ UNCHANGED <<now, config, lock, fsVars, initState, pruneInFlight, reruns, sinceEnd, waiter,
                 callVars, err, attempt, elapsed, sleepLeft, stats, held, scan, hist>>

----------------------------------------------------------------------------
Next ==
  \/ \E c \in Callers : \E s \in StoresOf(c), b \in BundlesOf(c) : StartSave(c, s, b)
  \/ \E c \in Callers : \E s \in StoresOf(c) : StartList(c, s)
  \/ \E c \in Callers : \E s \in StoresOf(c) : StartPrune(c, s)
  \/ \E c \in Callers : SaveBuild(c)
  \/ \E c \in Callers : ListBegin(c)
  \/ \E c \in Callers : PruneBegin(c)
  \/ \E t \in Threads : ScanReaddir(t)
  \/ \E t \in Threads : ScanRead(t)
  \/ \E k \in Cyclers : PruneDelete(k)
  \/ \E k \in Cyclers : CycleNext(k)
  \/ \E k \in Cyclers : CycleCatch(k)
  \/ \E k \in Cyclers : PruneWake(k)
  \/ \E t \in Threads : LockOpen(t)
  \/ \E t \in Threads : LockStat(t)
  \/ \E t \in Threads : LockReStat(t)
  \/ \E t \in Threads : LockUnlink(t)
  \/ \E t \in Threads : LockCheck(t)
  \/ \E t \in Threads : LockWake(t)
  \/ \E t \in Threads : Release(t)
  \/ \E c \in Callers : WriteBegin(c)
  \/ \E c \in Callers : WriteWake(c)
  \/ \E c \in Callers : WriteEnd(c)
  \/ \E c \in Callers : Rename(c)
  \/ \E c \in Callers : Cleanup(c)
  \/ \E s \in Stores : InitStore(s)
  \/ \E s \in Stores : Crash(s)
  \/ Tick

Spec == Init /\ [][Next]_vars

----------------------------------------------------------------------------
(* Properties *)

(* Is the thread inside the work that withLock runs: the temp-write, rename and temp
   cleanup of a save, or the scan, decision and deletion of a prune *)
InCritical(t) == IF t \in Callers THEN pc[t] \in SavePcs ELSE pc[t] \in PrunePcs

(* C1: for one evidence directory at most one critical section (the temp-write/rename
   of a save, the scan/decide/delete of a prune) is executing at any time, also when a
   holder keeps the lock longer than the staleness timeout or crashes. *)
C1_MutualExclusion == Cardinality({t \in Threads : InCritical(t)}) <= 1

(* Is the text what JSON.stringify wrote for some record, from the first token to the
   last *)
Complete(text) == Parses(text) /\ Stringify(Parse(text)) = text

(* C2: at every reachable state every record file under evidence/ holds a complete
   serialized record that readRecord accepts, stored under the name of its id; a
   list or a prune scan never reads a partially written record. *)
C2_RecordsComplete ==
  \A n \in DOMAIN files :
    /\ Complete(files[n].text)
    /\ readRecord(files[n].text) # NoRecord
    /\ n = FileName(Chars(readRecord(files[n].text).id))

(* C2, its case: a writer is in the middle of its temp write, or crashed there, while
   a record file exists *)
C2_Witness ==
  /\ DOMAIN files # {}
  /\ \E c \in Callers : /\ pc[c] \in {"writing", "crashed"}
                        /\ tmp[c] # NoFile
                        /\ ~Complete(tmp[c].text)

(* A save whose call is over: resolved or rejected *)
SaveOver(c) == op[c] = "save" /\ pc[c] \in {"done", "failed"}
(* The errors thrown by the work under the lock: the write and the rename *)
WorkErrors == Transient \cup {"EIO", "ERENAME"}

(* C3 as stated: when a saveEvidence call returns or rejects, the staging file it
   created under evidence/.tmp no longer exists. *)
C3_NoStagingFileLeft == \A c \in Callers : SaveOver(c) => tmp[c] = NoFile

(* C3, amended: when a saveEvidence call returns or rejects, the unlink of its staging
   file and the release of the lock have both been attempted before the result or the
   error of the write or rename reaches the caller, and the staging file no longer
   exists unless that unlink itself failed (the failure is swallowed). *)
C3_CleanupAttempted ==
  \A c \in Callers :
    /\ (SaveOver(c) /\ tmp[c] # NoFile) => "unlinkFailed" \in hist.ev[c]
    /\ (SaveOver(c) /\ (err[c] \in WorkErrors \/ "wrote" \in hist.ev[c]))
         => {"cleaned", "released"} \subseteq hist.ev[c]
    /\ (op[c] = "save" /\ pc[c] = "done" /\ config[store[c]].enabled)
         => {"wrote", "renamed", "cleaned", "released"} \subseteq hist.ev[c]

(* C3, its case: a save rejected with the error of a failed write, after the cleanup *)
C3_Witness ==
  \E c \in Callers : /\ SaveOver(c) /\ err[c] = "EIO"
                     /\ "cleaned" \in hist.ev[c] /\ tmp[c] = NoFile

(* Has the rename of caller c's current save failed *)
RenameFailed(c) == op[c] = "save" /\ "renameFailed" \in hist.ev[c]

(* C4 as stated: if the rename step of a save fails, the call rejects with the rename
   error and afterwards the .tmp directory is empty. *)
C4_TmpEmptyAfterRenameFailure ==
  \A c \in Callers :
    (RenameFailed(c) /\ pc[c] = "failed") => (err[c] = "ERENAME" /\ Staged = {} /\ orphans = 0)

(* C4, amended: if the rename step of a save fails, the call rejects with that rename
   error without renaming again, no step of the call from the failure on adds, removes
   or changes a record file, and the call's staging file is gone from .tmp afterwards
   unless its unlink failed. *)
C4_RenameFailure ==
  /\ [](\A c \in Callers :
          RenameFailed(c) =>
            /\ "renamed" \notin hist.ev[c]
            /\ pc[c] \in {"cleanup", "release", "failed", "crashed"}
            /\ err[c] = "ERENAME"
            /\ (pc[c] = "failed" /\ tmp[c] # NoFile) => "unlinkFailed" \in hist.ev[c])
  /\ [][\A c \in Callers :
          (RenameFailed(c) \/ (op[c] = "save" /\ "renameFailed" \in hist'.ev[c]))
            /\ pc'[c] # pc[c] => files' = files]_vars

(* C4, its case: a save rejected with the rename error while a record exists *)
C4_Witness ==
  /\ DOMAIN files # {}
  /\ \E c \in Callers : RenameFailed(c) /\ pc[c] = "failed" /\ tmp[c] = NoFile

(* Is the id of the bundle one that saveEvidence takes as it is *)
ValidId(id) == id # Undefined /\ Trim(id) = id /\ normalizeId(id, UUID("a")).ok

(* Caller c saved and then caller d listed, with no other call and no failing system
   call in the run: the store was empty when the save began *)
SavedThenListed(c, d) ==
  /\ hist.ops = 2 /\ hist.faults = 0 /\ ~hist.overlap
  /\ hist.seq[c] = 1 /\ hist.seq[d] = 2
  /\ op[c] = "save" /\ pc[c] = "done" /\ config[store[c]].enabled
  /\ ValidId(bundle[c].id)
  /\ op[d] = "list" /\ pc[d] = "done"

(* C5: on an empty, enabled store, saveEvidence({id, type, payload}) with a valid id
   followed by listEvidence() returns exactly one record whose id, type and payload
   equal the input, whose filename is id + ".json" and whose created_at is defined. *)
C5_RoundTrip ==
  \A c, d \in Callers :
    SavedThenListed(c, d) =>
      /\ Len(result[d]) = 1
      /\ result[d][1].id = JStr(bundle[c].id)
      /\ result[d][1].type = bundle[c].type
      /\ result[d][1].payload = bundle[c].payload
      /\ result[d][1].filename = JStr(bundle[c].id \o DotJson)
      /\ result[d][1].created_at # Undefined

(* C5, its case: a save of a payload that needs escaping, then a list that returned *)
C5_Witness ==
  \E c, d \in Callers : SavedThenListed(c, d) /\ bundle[c] = BundleB /\ result[d] # <<>>

(* C6: a record is created once and is immutable afterwards: no step changes or
   replaces the content of a record file that exists, and a record file disappears only
   in the deletion step of a prune. *)
C6_RecordsImmutable ==
  [][\A n \in DOMAIN files :
       IF n \in DOMAIN files' THEN files'[n].text = files[n].text
       ELSE \E k \in Cyclers : pc[k] = "deleting" /\ pc'[k] = "release"]_vars

(* The callers that have a save in flight or over *)
Savers == {c \in Callers : op[c] = "save"}
(* All calls of the run are saves, one per caller, with pairwise distinct valid ids on
   one enabled store, no other store instance has been constructed on the directory
   meanwhile, and no system call has failed *)
ParallelSaves ==
  /\ hist.ops = Cardinality(Savers) /\ hist.faults = 0
  /\ \A s \in Stores : initState[s] = (IF s = 1 THEN "done" ELSE "pending")
  /\ \A c, d \in Savers :
       /\ store[c] = store[d] /\ config[store[c]].enabled
       /\ ValidId(bundle[c].id)
       /\ c # d => bundle[c].id # bundle[d].id

(* C7: N saveEvidence calls with pairwise distinct valid ids issued in parallel on one
   enabled store all resolve: none is rejected, with the lock error or any other. *)
C7_ParallelSavesResolve == ParallelSaves => \A c \in Savers : pc[c] # "failed"

----------------------------------------------------------------------------
(* Identifier validation: one caller saves bundles whose ids cover the cases of
   normalizeId *)
Repeat(ch, n) == [i \in 1..n |-> ch]
IdCandidates ==
  { Undefined, <<>>, <<" ">>, <<" ", "\t">>, <<" ", "a", " ">>,
    <<".", ".">>, <<"C", "O", "M", "1">>, <<"c", "o", "m", "1">>, <<"L", "p", "T", "9">>,
    <<"C", "O", "M", "0">>, <<"b", "a", "d", ":", "n", "a", "m", "e">>,
    <<"a", "1", "_", "2", "-", "3">>, <<"a", ".", "b">>,
    Repeat("x", ID_MAX_LEN), Repeat("x", ID_MAX_LEN + 1) }
IdBundles == {Bundle(id, TypeTest, JNull, Undefined) : id \in IdCandidates}

IdNext ==
  \/ \E b \in IdBundles : StartSave(1, 1, b)
  \/ SaveBuild(1)
  \/ LockOpen(1)
  \/ WriteBegin(1)
  \/ WriteWake(1)
  \/ WriteEnd(1)
  \/ Rename(1)
  \/ Cleanup(1)
  \/ Release(1)
  \/ Tick

IdSpec == Init /\ [][IdNext]_vars

(* The save of caller c got past normalizeId, or was rejected by it *)
Accepted(c) == op[c] = "save" /\ rec[c] # NoRec
Rejected(c) == op[c] = "save" /\ pc[c] = "failed" /\ err[c] = "EVALIDATION"
(* The rule for ids: ^[A-Za-z0-9_-]{1,64}$ and not a reserved device name in upper case *)
WellFormed(id) == ID_PATTERN(id) /\ ToUpperCase(id) \notin WINDOWS_RESERVED_NAMES

(* C9: saveEvidence accepts a supplied id, after trimming, if and only if it matches
   ^[A-Za-z0-9_-]{1,64}$ and its upper-cased form is not a reserved device name; an
   accepted id is the one the record is stored under. *)
C9_AcceptedIffWellFormed ==
  \A c \in Callers :
    bundle[c].id # Undefined =>
      /\ Accepted(c) => WellFormed(Trim(bundle[c].id)) /\ rec[c].id = Trim(bundle[c].id)
      /\ Rejected(c) => ~WellFormed(Trim(bundle[c].id))
      /\ (op[c] = "save" /\ "renamed" \in hist.ev[c] /\ pc[c] = "cleanup")
           => Exists(FileName(Trim(bundle[c].id)))

(* C10: normalizeId generates a random id only when the candidate is absent; a
   candidate that is present but empty after trimming never gets past normalizeId:
   no record is built for it and nothing is saved. *)
C10_EmptyIdFails ==
  \A c \in Callers :
    /\ (Accepted(c) /\ rec[c].id \in UUIDs) => bundle[c].id = Undefined
    /\ (bundle[c].id # Undefined /\ Trim(bundle[c].id) = <<>>) => ~Accepted(c)

----------------------------------------------------------------------------
(* Scheduling: time passes, every pending system call and timer of a live process
   completes, and a constructed store finishes its initialisation.  Nothing obliges a
   caller to start a call, or a process to crash *)
ThreadStep(t) ==
  \/ LockOpen(t) \/ LockStat(t) \/ LockReStat(t) \/ LockUnlink(t) \/ LockCheck(t)
  \/ LockWake(t) \/ Release(t) \/ ScanReaddir(t) \/ ScanRead(t)
  \/ SaveBuild(t) \/ PruneBegin(t)
  \/ WriteBegin(t) \/ WriteWake(t) \/ WriteEnd(t) \/ Rename(t) \/ Cleanup(t)
  \/ PruneDelete(t) \/ CycleNext(t) \/ CycleCatch(t) \/ PruneWake(t)

Fairness ==
  /\ WF_vars(Tick)
  /\ \A t \in Threads : WF_vars(ThreadStep(t))
  /\ \A s \in Stores : WF_vars(InitStore(s))

(* The runs in which the callers save and prune, the process of the second store may
   crash, and at most one system call fails or one crash happens *)
LiveInit == Start(MaxFaults - 1)

LiveNext ==
  \/ \E c \in Callers : StartSave(c, Min(c, NumStores), BundleB)
  \/ \E c \in Callers : \E s \in StoresOf(c) : StartPrune(c, s)
  \/ \E t \in Threads : ThreadStep(t)
  \/ InitStore(NumStores)
  \/ Crash(NumStores)
  \/ Tick

FairSpec == LiveInit /\ [][LiveNext]_vars /\ Fairness

(* C8: no caller waits on the lock forever: a thread never starts another backoff
   sleep once its wait has exceeded the total budget, and, the calls being finitely
   many, every run keeps coming back to a state where no thread is acquiring the lock
   (each acquisition has obtained it or thrown, also when the holder has crashed and
   never releases) and to a state where no call is in flight. *)
C8_NoWaitForever ==
  /\ [][\A t \in Threads :
          (pc[t] = "check" /\ pc'[t] = "sleep") => elapsed[t] <= LOCK_TOTAL_TIMEOUT_MS]_vars
  /\ []<>(\A t \in Threads : pc[t] \notin AcquirePcs)
  /\ []<>(\A c \in Callers : ~InFlight(c))

(* C8, its case: a thread waits for the lock whose holder crashed in its critical
   section *)
C8_Witness ==
  \E t \in Threads :
    /\ pc[t] \in {"check", "sleep"}
    /\ lock # NoLock /\ pc[lock.ino] = "crashed"

----------------------------------------------------------------------------
(* Saves that stop before the work: the first caller saves bundles with invalid and
   valid ids on the first store, which is enabled or disabled, while the second caller
   saves on the last store, which is enabled *)
GateConfigs == {[Config EXCEPT ![1].enabled = e] : e \in BOOLEAN}
GateBundles ==
  {Bundle(id, TypeTest, JNull, Undefined) :
     id \in {<<".", ".">>, <<"C", "O", "M", "1">>, <<"a">>}}

GateInit == \E cfg \in GateConfigs : StartWith(0, cfg, NoFiles)

GateNext ==
  \/ \E b \in GateBundles : StartSave(1, 1, b)
  \/ StartSave(NumCallers, NumStores, BundleA2)
  \/ \E c \in Callers : SaveBuild(c)
  \/ \E c \in Callers : LockOpen(c)
  \/ \E c \in Callers : LockStat(c)
  \/ \E c \in Callers : LockReStat(c)
  \/ \E c \in Callers : LockUnlink(c)
  \/ \E c \in Callers : LockCheck(c)
  \/ \E c \in Callers : LockWake(c)
  \/ \E c \in Callers : Release(c)
  \/ \E c \in Callers : WriteBegin(c)
  \/ \E c \in Callers : WriteWake(c)
  \/ \E c \in Callers : WriteEnd(c)
  \/ \E c \in Callers : Rename(c)
  \/ \E c \in Callers : Cleanup(c)
  \/ InitStore(NumStores)
  \/ Tick

GateSpec == GateInit /\ [][GateNext]_vars

(* The errors of a save that never got the lock: the rejection of normalizeId, the
   timeout of acquireLock, and the error of the exclusive create or of the marker write *)
LockErrors == {"ELOCK", "EOPEN"}
EarlyErrors == {"EVALIDATION"} \cup LockErrors
(* The number of staging files in evidence/.tmp *)
StagingCount == Cardinality(Staged) + orphans

(* C11: a saveEvidence call that fails identifier validation or fails to acquire the
   lock is rejected at once and has created no staging file and no record file and
   changed no record or staging file: none of its steps before the lock is obtained
   touches evidence/ or evidence/.tmp; a validation failure comes straight after
   initPromise, without any step of acquireLock and without touching the marker; and a
   rejected call takes no further step (the caller's next step is a new call). *)
C11_FailedSaveWritesNothing ==
  /\ [](\A c \in Callers :
          (op[c] = "save" /\ err[c] \in EarlyErrors) =>
            /\ pc[c] = "failed"
            /\ tmp[c] = NoFile /\ held[c] = 0
            /\ hist.ev[c] = {})
  /\ [][\A c \in Callers :
          /\ (op[c] = "save" /\ pc[c] \in {"awaitInit"} \cup AcquirePcs /\ pc'[c] # pc[c])
               => (files' = files /\ tmp' = tmp /\ orphans' = orphans)
          /\ (err'[c] = "EVALIDATION" /\ err[c] # "EVALIDATION")
               => (pc[c] = "awaitInit" /\ lock' = lock /\ elapsed'[c] = 0)
          /\ (op[c] = "save" /\ pc[c] = "failed" /\ pc'[c] # "failed")
               => hist'.ops = hist.ops + 1]_vars

(* C11, its case: a save rejected with the lock timeout while a record file exists *)
C11_Witness ==
  /\ DOMAIN files # {}
  /\ \E c \in Callers : op[c] = "save" /\ pc[c] = "failed" /\ err[c] = "ELOCK"

(* C18: on a store whose config.enabled is false, saveEvidence resolves in its first
   step, whatever the bundle: it raises nothing, builds no record, takes no step of
   acquireLock, and the step leaves the record files, the staging files and the lock
   marker as they are. *)
C18_DisabledSaveIsNoop ==
  /\ [](\A c \in Callers :
          (op[c] = "save" /\ ~config[store[c]].enabled) =>
            /\ pc[c] = "done" /\ err[c] = None
            /\ rec[c] = NoRec /\ held[c] = 0 /\ tmp[c] = NoFile
            /\ hist.ev[c] = {})
  /\ [][\A c \in Callers :
          (hist'.seq[c] # hist.seq[c] /\ op'[c] = "save" /\ ~config[store'[c]].enabled)
            => (files' = files /\ StagingCount' = StagingCount /\ lock' = lock)]_vars

(* C18, its case: a save of a bundle with an invalid id has resolved on the disabled
   store while another caller holds the lock and a record file exists *)
C18_Witness ==
  /\ lock # NoLock /\ DOMAIN files # {}
  /\ \E c \in Callers :
       /\ op[c] = "save" /\ ~config[store[c]].enabled /\ pc[c] = "done"
       /\ ~normalizeId(bundle[c].id, UUID("a")).ok

----------------------------------------------------------------------------
(* C15: listEvidence never rejects: whatever happens to the directory, to its files
   and to the store's initialization, a listEvidence call is never in the rejected
   state. *)
C15_ListNeverRejects == \A c \in Callers : op[c] = "list" => pc[c] # "failed"

(* C16: pruneStaleBundles never rejects to its caller: a lock timeout, scan errors,
   unlink failures and a failed store initialization are swallowed, so a
   pruneStaleBundles call is never in the rejected state. *)
C16_PruneNeverRejects == \A c \in Callers : op[c] = "prune" => pc[c] # "failed"

(* No process has died, and no call or prune cycle is in flight *)
AtRest == (\A s \in Stores : initState[s] # "crashed") /\ (\A t \in Threads : ~InFlight(t))

(* C19: whenever no save or prune of a live process is in flight, evidence/.lock does
   not exist: every path out of an operation that created the marker has removed it. *)
C19_NoMarkerAtRest == AtRest => lock = NoLock

(* C20: every step that creates, renames or deletes a record file or a staging file is
   a step of a thread that holds the lock (it created the marker and has not yet
   released it), the temp-file cleanup of the store initialization included. *)
C20_MutationsUnderLock ==
  [][(\/ files' # files
      \/ StagingCount' # StagingCount
      \/ \E c \in Callers : tmp'[c] # tmp[c] /\ hist'.seq[c] = hist.seq[c])
       => \E t \in Threads : held[t] # 0 /\ pc'[t] # pc[t]]_vars

----------------------------------------------------------------------------
(* Retention: the first store is constructed on a directory that holds records written
   by earlier saves, with a retention budget of one or two days and one or two bundles;
   the callers list the records and the first caller prunes them *)
MaxFiles == 3

(* The record file that saveEvidence({id, type, payload, created_at}) wrote at time
   mtime *)
Saved(id, created_at, mtime) ==
  [text |-> Stringify(BuildRecord(id, Bundle(id, TypeTest, JNull, created_at), mtime)),
   mtime |-> mtime]

(* Earlier saves: a record dated 48 hours before T0 by its caller, one dated exactly 24
   hours before, one a millisecond older than that, one dated by the store at T0, one
   dated an hour before T0 by its caller in a time zone two hours ahead of UTC, one
   whose caller gave an empty date, and one whose caller gave a text that is no date *)
EarlierSaves ==
  { [id |-> <<"o">>, file |-> Saved(<<"o">>, JStr(toISOString(0)), T0 - HourMs)],
    [id |-> <<"e">>, file |-> Saved(<<"e">>, JStr(toISOString(T0 - DayMs)), T0 - HourMs)],
    [id |-> <<"f">>, file |-> Saved(<<"f">>, JStr(toISOString(T0 - DayMs - 1)), T0)],
    [id |-> <<"n">>, file |-> Saved(<<"n">>, Undefined, T0)],
    [id |-> <<"z">>, file |-> Saved(<<"z">>, JStr(Pad(T0 + HourMs, ISO_WIDTH) \o <<"+", "2">>),
                                    T0 - HourMs)],
    [id |-> <<"x">>, file |-> Saved(<<"x">>, JStr(<<>>), T0)],
    [id |-> <<"w">>, file |-> Saved(<<"w">>, JStr(<<"w">>), T0 - 2 * HourMs)] }

Directory(saves) ==
  [n \in {FileName(x.id) : x \in saves} |->
     (CHOOSE x \in saves : FileName(x.id) = n).file]
Directories == {Directory(S) : S \in {X \in SUBSET EarlierSaves : Cardinality(X) <= MaxFiles}}

KeepConfigs ==
  {[Config EXCEPT ![1].max_age_days = d, ![1].max_bundles = b] : d \in 1..2, b \in 1..2}

KeepInit == \E cfg \in KeepConfigs, dir \in Directories : StartWith(0, cfg, dir)

KeepNext ==
  \/ \E c \in Callers : StartList(c, 1)
  \/ StartPrune(1, 1)
  \/ \E c \in Callers : ListBegin(c)
  \/ PruneBegin(1)
  \/ \E t \in Threads : ScanReaddir(t)
  \/ \E t \in Threads : ScanRead(t)
  \/ LockOpen(CyclerOf(1))
  \/ PruneDelete(CyclerOf(1))
  \/ Release(CyclerOf(1))
  \/ CycleNext(CyclerOf(1))
  \/ CycleCatch(CyclerOf(1))
  \/ Tick

KeepSpec == KeepInit /\ [][KeepNext]_vars

(* A file that holds a record, the time the retention rules take for it (the date of
   created_at, or the file's modification time when that is no date), and whether its
   age at a given time is within the age budget of a store *)
Parsable(f) == readRecord(f.text) # NoRecord
EffectiveTime(f) ==
  LET t == DateParse(Chars(readRecord(f.text).created_at)) IN IF t = NaN THEN f.mtime ELSE t
InBudget(f, clock, s) == clock - EffectiveTime(f) <= config[s].max_age_days * DayMs
Fresh(dir, clock, s) == {n \in DOMAIN dir : Parsable(dir[n]) /\ InBudget(dir[n], clock, s)}

(* The step in which a prune run deletes what it marked, in a run of the system in
   which no system call has failed *)
PruneDeletes(k) == pc[k] = "deleting" /\ pc'[k] = "release" /\ hist'.faults = 0

(* The step in which a prune run deletes what it marked, every unlink succeeding *)
PruneUnlinksAll(k) == pc[k] = "deleting" /\ pc'[k] = "release" /\ hist'.faults = hist.faults

(* C12 as stated: after a prune run completes (all unlinks succeeding, no concurrent
   save) no parsable record whose effective timestamp is more than max_age_days * 24 h
   older than the run's now remains, and every parsable record whose age is at most
   that budget survives the age rule. *)
C12_AgeRuleAsStated ==
  [][\A k \in Cyclers :
       PruneUnlinksAll(k) =>
         LET s == StoreOf(k)
             fresh == Fresh(files, scan[k].at, s)
         IN  /\ \A n \in DOMAIN files' :
                  Parsable(files'[n]) => InBudget(files'[n], scan[k].at, s)
             /\ Cardinality(fresh) <= config[s].max_bundles => fresh \subseteq DOMAIN files']_vars

(* C12, amended: after a prune run whose scan of the directory succeeded (and all
   unlinks succeeding, no concurrent save) no parsable record whose effective timestamp
   is more than max_age_days * 24 h older than the run's now remains; every parsable
   record whose age is at most that budget survives the age rule: it is deleted only
   when the surviving records outnumber max_bundles, and a surviving record is left as
   it was.  A run whose readdir failed deletes nothing. *)
C12_AgeRule ==
  [][\A k \in Cyclers :
       PruneDeletes(k) =>
         LET s == StoreOf(k)
             fresh == Fresh(files, scan[k].at, s)
         IN  /\ \A n \in DOMAIN files' :
                  Parsable(files'[n]) => InBudget(files'[n], scan[k].at, s)
             /\ Cardinality(fresh) <= config[s].max_bundles => fresh \subseteq DOMAIN files'
             /\ \A n \in fresh \cap DOMAIN files' : files'[n] = files[n]]_vars

(* C12, its case: with max_age_days = 1 a caller listed three records, dated 48 hours
   ago, exactly 24 hours ago and now, and after the prune of the other caller the last
   two are what the directory holds *)
C12_Witness ==
  /\ config[1].max_age_days = 1
  /\ \E c, d \in Callers :
       /\ op[c] = "list" /\ pc[c] = "done" /\ Len(result[c]) = 3
       /\ \E i \in 1..3 : result[c][i].id = JStr(<<"o">>)
       /\ op[d] = "prune" /\ pc[d] = "done"
  /\ DOMAIN files = {FileName(<<"e">>), FileName(<<"n">>)}

(* The records held by the parsable files of the directory *)
ParsableNames == {n \in DOMAIN files : Parsable(files[n])}
Held == {readRecord(files[n].text) : n \in ParsableNames}
(* The sequence holds each of the directory's records once and nothing else *)
ListsDirectory(seq) == Range(seq) = Held /\ Len(seq) = Cardinality(ParsableNames)
(* The time the retention rules take for a listed record *)
EffectiveTimeOf(r) == EffectiveTime(files[Chars(r.filename)])

(* The instant that the created_at of a record denotes *)
Instant(r) == DateParse(Chars(r.created_at))

(* Caller d listed right after the prune of caller c had resolved, in a run in which
   no system call failed and no calls overlapped *)
ListedAfterPrune(c, d) ==
  /\ hist.faults = 0 /\ ~hist.overlap
  /\ op[c] = "prune" /\ pc[c] = "done"
  /\ op[d] = "list" /\ pc[d] = "done"
  /\ hist.seq[d] = hist.seq[c] + 1 /\ hist.ops = hist.seq[d]

(* The deletion step of a prune run keeps exactly the max_bundles newest of the
   records that survive the age rule, and all of them when they are no more than that *)
KeepsNewest(k) ==
  LET s == StoreOf(k)
      fresh == Fresh(files, scan[k].at, s)
      kept == fresh \cap DOMAIN files'
  IN  /\ Cardinality(fresh) > config[s].max_bundles =>
           /\ Cardinality({n \in DOMAIN files' : Parsable(files'[n])}) = config[s].max_bundles
           /\ \A gone \in fresh \ kept, n \in kept :
                EffectiveTime(files[gone]) <= EffectiveTime(files[n])
      /\ Cardinality(fresh) <= config[s].max_bundles => fresh \subseteq DOMAIN files'
      /\ \A n \in kept : files'[n] = files[n]

(* C13: after a prune run with max_bundles = N over k > N age-surviving records (all
   system calls succeeding, no concurrent save) exactly N records remain, every deleted
   record's timestamp is <= every kept record's, and a listEvidence() that follows
   returns exactly those records ordered newest first (of two listed records whose
   created_at are dates, the one listed first is not the older one); when k <= N the
   count rule deletes nothing. *)
C13_CountRule ==
  /\ [][\A k \in Cyclers : PruneDeletes(k) => KeepsNewest(k)]_vars
  /\ [](\A c, d \in Callers :
          ListedAfterPrune(c, d) =>
            /\ ListsDirectory(result[d])
            /\ Len(result[d]) <= config[store[c]].max_bundles
            /\ \A i, j \in DOMAIN result[d] :
                 (i < j /\ Instant(result[d][i]) # NaN /\ Instant(result[d][j]) # NaN)
                   => EffectiveTimeOf(result[d][i]) >= EffectiveTimeOf(result[d][j]))

(* Caller d's listEvidence is the latest call and has resolved, in a run in which no
   system call failed and no calls overlapped *)
Listed(d) ==
  /\ hist.faults = 0 /\ ~hist.overlap
  /\ op[d] = "list" /\ pc[d] = "done" /\ hist.ops = hist.seq[d]

(* C14: listEvidence() returns exactly the records of the *.json files under evidence/
   that parse with a non-empty id and created_at, ordered newest first by created_at:
   of two listed records whose created_at are dates, the one listed first is not the
   older one; this for any records written through save, also with a created_at
   supplied by the caller. *)
C14_ListsNewestFirst ==
  \A d \in Callers :
    Listed(d) =>
      /\ ListsDirectory(result[d])
      /\ \A i, j \in DOMAIN result[d] :
           (i < j /\ Instant(result[d][i]) # NaN /\ Instant(result[d][j]) # NaN)
             => Instant(result[d][i]) >= Instant(result[d][j])

(* The positions of a listEvidence call: awaiting initPromise, reading the directory,
   reading the entries, resolved, rejected *)
ListPcs == {"awaitInit", "readdir", "scanning", "done", "failed"}

(* Callers c and d listed one right after the other, in a run in which no system call
   failed and no calls overlapped *)
ListedTwice(c, d) ==
  /\ hist.faults = 0 /\ ~hist.overlap
  /\ op[c] = "list" /\ pc[c] = "done"
  /\ op[d] = "list" /\ pc[d] = "done"
  /\ hist.seq[d] = hist.seq[c] + 1

(* C17: listEvidence is read-only and lock-free: a listEvidence call is never at a
   step of acquireLock or asleep in its backoff, and never holds the marker, whoever
   holds the lock; none of its steps creates,
   changes or deletes a record file, a staging file or the lock marker; and two
   consecutive listEvidence() calls with no write in between return the same
   sequence. *)
C17_ListReadOnly ==
  /\ [](\A c \in Callers :
          op[c] = "list" =>
            pc[c] \in ListPcs /\ held[c] = 0 /\ sleepLeft[c] = 0)
  /\ [][\A c \in Callers :
          (op[c] = "list" /\ pc'[c] # pc[c] /\ hist'.seq[c] = hist.seq[c])
            => (files' = files /\ tmp' = tmp /\ orphans' = orphans /\ lock' = lock)]_vars
  /\ [](\A c, d \in Callers : ListedTwice(c, d) => result[c] = result[d])

(* C17, its case: a listEvidence call that began after the prune call has returned
   records while the prune cycle holds the lock and has not yet deleted anything *)
C17_Witness ==
  /\ lock # NoLock /\ \E k \in Cyclers : held[k] # 0 /\ pc[k] \in PrunePcs
  /\ \E c, d \in Callers :
       /\ op[c] = "prune" /\ pc[c] = "awaitCycle"
       /\ op[d] = "list" /\ pc[d] = "done"
       /\ hist.seq[d] = hist.seq[c] + 1
       /\ Len(result[d]) >= 2 /\ ListsDirectory(result[d])

----------------------------------------------------------------------------
(* The lock marker under contention *)

(* Two callers save on the first store, on a directory in which a process that died
   left its marker *)
Foreign == NumCallers + NumStores + 1
Abandoned == [ino |-> Foreign, age |-> 0]
LockInit == StartOn(0, Config, NoFiles, Abandoned)

LockNext ==
  \/ \E c \in Callers : \E b \in BundlesOf(c) : StartSave(c, 1, b)
  \/ \E c \in Callers : SaveBuild(c)
  \/ \E c \in Callers : LockOpen(c)
  \/ \E c \in Callers : LockStat(c)
  \/ \E c \in Callers : LockReStat(c)
  \/ \E c \in Callers : LockUnlink(c)
  \/ \E c \in Callers : LockCheck(c)
  \/ \E c \in Callers : LockWake(c)
  \/ \E c \in Callers : Release(c)
  \/ \E c \in Callers : WriteBegin(c)
  \/ \E c \in Callers : WriteWake(c)
  \/ \E c \in Callers : WriteEnd(c)
  \/ \E c \in Callers : Rename(c)
  \/ \E c \in Callers : Cleanup(c)
  \/ Tick

LockSpec == LockInit /\ [][LockNext]_vars

(* The step in which the thread's fs.unlink of line 264 removes a marker *)
Reclaims(t) == pc[t] = "unlink" /\ lock # NoLock /\ lock' = NoLock

(* C28: a contender deletes the existing marker only after two successive observations
   of the same inode with an age above LOCK_TIMEOUT_MS, and the marker it deletes is
   the one it observed: never a marker that another contender created after the first
   observation, which is fresh. *)
C28_ReclaimsObservedMarker ==
  [][\A t \in Threads :
       Reclaims(t) => stats[t] # 0 /\ lock.ino = stats[t] /\ IsStale(lock.age)]_vars

(* The step in which the unlink of withLock's finally, line 237, removes a marker *)
Releases(t) == pc[t] = "release" /\ lock # NoLock /\ lock' = NoLock

(* C29: releasing the lock removes only the marker that the releasing holder created:
   a holder whose marker was reclaimed as stale while it was working never deletes the
   marker of the thread that acquired the lock afterwards. *)
C29_ReleasesOwnMarker ==
  [][\A t \in Threads : Releases(t) => lock.ino = held[t]]_vars

(* C30: after a contender has deleted a stale marker its next step is the exclusive
   create, with no backoff sleep in between; it goes to the budget check and the
   backoff only when it did not delete the marker. *)
C30_RetriesAfterReclaim ==
  [][\A t \in Threads : Reclaims(t) => pc'[t] = "open"]_vars

----------------------------------------------------------------------------
(* The prune cycle under a burst of requests: both callers call pruneStaleBundles on
   the first store, again and again *)
MaxPrunes == 6

PruneCall(c, s) ==
  /\ hist.ops < MaxPrunes
  /\ Call(c, s, "prune", bundle[c])
  /\ pc' = [pc EXCEPT ![c] = "awaitInit"]

CycleStep(k) ==
  \/ LockOpen(k) \/ LockStat(k) \/ LockReStat(k) \/ LockUnlink(k) \/ LockCheck(k)
  \/ LockWake(k) \/ ScanReaddir(k) \/ ScanRead(k) \/ PruneDelete(k) \/ Release(k)
  \/ CycleNext(k) \/ CycleCatch(k) \/ PruneWake(k)

BurstNext ==
  \/ \E c \in Callers : PruneCall(c, 1)
  \/ \E c \in Callers : PruneBegin(c)
  \/ LockOpen(CyclerOf(1))
  \/ LockStat(CyclerOf(1))
  \/ LockReStat(CyclerOf(1))
  \/ LockUnlink(CyclerOf(1))
  \/ LockCheck(CyclerOf(1))
  \/ LockWake(CyclerOf(1))
  \/ ScanReaddir(CyclerOf(1))
  \/ ScanRead(CyclerOf(1))
  \/ PruneDelete(CyclerOf(1))
  \/ Release(CyclerOf(1))
  \/ CycleNext(CyclerOf(1))
  \/ CycleCatch(CyclerOf(1))
  \/ PruneWake(CyclerOf(1))
  \/ Tick

BurstSpec == Init /\ [][BurstNext]_vars

(* The step in which a call of pruneStaleBundles starts a cycle and awaits it, and the
   step in which it finds a cycle in flight *)
Launches(c) == pc[c] = "awaitInit" /\ op[c] = "prune" /\ pc'[c] = "awaitCycle"
FindsRunning(c) ==
  /\ pc[c] = "awaitInit" /\ op[c] = "prune" /\ pc'[c] # pc[c]
  /\ initState[store[c]] = "done" /\ pruneInFlight[store[c]]

(* C21: within one store instance at most one prune cycle is in flight at any time:
   the cycle is in flight exactly while pruneInFlight is set, a call starts a cycle
   only when none is in flight, and pruneOnce runs only in the cycle in flight, in
   every interleaving of pruneStaleBundles calls. *)
C21_SingleFlight ==
  /\ [](\A s \in Stores : pruneInFlight[s] <=> pc[CyclerOf(s)] # "idle")
  /\ [][\A c \in Callers :
          Launches(c) => ~pruneInFlight[store[c]] /\ pc[CyclerOf(store[c])] = "idle"]_vars
  /\ [][\A s \in Stores :
          hist'.runs[s] > hist.runs[s] => pruneInFlight[s] /\ held[CyclerOf(s)] # 0]_vars

(* C21, its case: a second call arrived during the spacing sleep of the cycle that the
   first call awaits *)
C21_Witness ==
  \E c, d \in Callers :
    /\ pc[c] = "awaitCycle" /\ waiter[1] = c
    /\ pc[CyclerOf(1)] = "psleep" /\ prunePending[1]
    /\ op[d] = "prune" /\ pc[d] = "done" /\ hist.seq[d] = hist.ops

(* C22: a pruneStaleBundles call made while a cycle is running only sets prunePending
   and resolves in that step: it does not wait for the cycle's lock acquisition, its
   pruneOnce or its spacing sleep, and it starts no run of its own. *)
C22_JoinReturnsAtOnce ==
  [][\A c \in Callers :
       FindsRunning(c) =>
         /\ pc'[c] = "done"
         /\ prunePending'[store[c]]
         /\ pc'[CyclerOf(store[c])] = pc[CyclerOf(store[c])]
         /\ <<pruneInFlight, reruns, waiter, lock, held, sleepLeft>>'
              = <<pruneInFlight, reruns, waiter, lock, held, sleepLeft>>
         /\ hist'.runs = hist.runs]_vars

(* C22, its case: the call resolved while the cycle waits for the lock *)
C22_Witness ==
  \E d \in Callers :
    /\ pc[CyclerOf(1)] = "sleep" /\ prunePending[1] /\ lock # NoLock
    /\ op[d] = "prune" /\ pc[d] = "done" /\ hist.seq[d] = hist.ops

(* The steps in which a run of the cycle ends: withLock resolved, or it threw *)
RunCompletes(k) == pc[k] = "afterRun" /\ pc'[k] # pc[k]
RunFails(k) == pc[k] = "caught" /\ pc'[k] # pc[k]
(* What the claim says of the end of a run *)
RerunDecision(s) ==
  LET k == CyclerOf(s) IN
  IF prunePending[s] /\ reruns[s] < PRUNE_RERUN_CAP
  THEN /\ reruns'[s] = reruns[s] + 1
       /\ pruneInFlight'[s] /\ pc'[k] = "psleep"
       /\ hist'.log[s] = hist.log[s]
  ELSE /\ ~prunePending'[s]
       /\ ~pruneInFlight'[s] /\ pc'[k] = "idle"
       /\ hist'.log[s] = WarnCap <=> (prunePending[s] /\ reruns[s] >= PRUNE_RERUN_CAP)

(* C23 as stated: at the end of every run, failed or not, the cycle reruns if and only
   if prunePending is set and reruns < PRUNE_RERUN_CAP, incrementing reruns; otherwise
   it clears prunePending, warns exactly when the cap was the reason, and goes idle with
   no further run. *)
C23_RerunDecisionAsStated ==
  [][\A s \in Stores :
       (RunCompletes(CyclerOf(s)) \/ RunFails(CyclerOf(s))) => RerunDecision(s)]_vars

(* C23: at the end of a run whose withLock resolved the cycle reruns if and only if
   prunePending is set and reruns < PRUNE_RERUN_CAP, incrementing reruns, and a rerun
   starts only so; otherwise it clears prunePending, warns of the cap exactly when the
   cap was the reason, and goes idle.  A run that threw ends the cycle with the failure
   warning and no rerun of that cycle, and a request left pending then starts a new
   cycle at once, with reruns = 0. *)
C23_RerunDecision ==
  [][\A s \in Stores :
       LET k == CyclerOf(s) IN
       /\ RunCompletes(k) => RerunDecision(s)
       /\ (pc[k] = "psleep" /\ pc'[k] = "open") => reruns[s] \in 1..PRUNE_RERUN_CAP
       /\ RunFails(k) =>
            /\ hist'.log[s] = WarnFailed /\ reruns'[s] = 0 /\ ~prunePending'[s]
            /\ pruneInFlight'[s] = prunePending[s]
            /\ pc'[k] = IF prunePending[s] THEN "open" ELSE "idle"]_vars

(* C23, its case: the cycle ended at the cap with a request pending *)
C23_Witness ==
  /\ hist.log[1] = WarnCap /\ pc[CyclerOf(1)] = "idle"
  /\ ~pruneInFlight[1] /\ ~prunePending[1]

(* C24: one cycle (one executePruneCycle) executes pruneOnce at most
   PRUNE_RERUN_CAP + 1 = 4 times, however many requests arrive during the cycle. *)
C24_RunsPerCycle ==
  \A s \in Stores :
    /\ hist.runs[s] <= PRUNE_RERUN_CAP + 1
    /\ hist.runs[s] <= reruns[s] + 1

(* C24, its case: the fourth pruneOnce of a cycle, with the sixth request pending *)
C24_Witness ==
  /\ hist.runs[1] = PRUNE_RERUN_CAP + 1 /\ pc[CyclerOf(1)] \in PrunePcs
  /\ prunePending[1] /\ hist.ops = MaxPrunes

(* C26: each rerun of a cycle begins no earlier than PRUNE_MIN_INTERVAL_MS = 1 s after
   the end of the preceding run of that cycle. *)
C26_RerunSpacing ==
  [][\A s \in Stores :
       (pc[CyclerOf(s)] = "psleep" /\ pc'[CyclerOf(s)] = "open")
         => sinceEnd[s] >= PRUNE_MIN_INTERVAL_MS]_vars

(* C26, its case: a rerun has begun *)
C26_Witness ==
  /\ pc[CyclerOf(1)] = "open" /\ reruns[1] >= 1 /\ hist.runs[1] >= 1
  /\ sinceEnd[1] >= PRUNE_MIN_INTERVAL_MS

(* The step in which a pruneStaleBundles call that found no cycle in flight resolves *)
FoundIdleResolves(c) ==
  /\ op[c] = "prune" /\ pc'[c] = "done"
  /\ \/ pc[c] = "awaitCycle"
     \/ pc[c] = "awaitInit" /\ initState[store[c]] = "done" /\ ~pruneInFlight[store[c]]

(* C27: when a pruneStaleBundles call that found the pruner idle resolves, a run that
   started after the call has finished (pruneOnce was executed, or the attempt threw),
   the cycle it started has ended with all its reruns and spacing sleeps, and that
   cycle holds the lock no more: its marker is gone. *)
C27_ResolvesAfterCycle ==
  [][\A c \in Callers :
       FoundIdleResolves(c) =>
         LET s == store[c]
             k == CyclerOf(store[c])
         IN  /\ waiter[s] = c /\ waiter'[s] = 0
             /\ pc[k] \in {"afterRun", "caught"}
             /\ hist.runs[s] >= 1 \/ pc[k] = "caught"
             /\ ~Reruns(prunePending[s], reruns[s]) \/ pc[k] = "caught"
             /\ sleepLeft[k] = 0 /\ held[k] = 0
             /\ hist.faults = 0 => lock = NoLock]_vars

(* C27, its case: the first call, which found the pruner idle, has resolved, and so
   has a later call *)
C27_Witness ==
  \E c, d \in Callers :
    /\ op[c] = "prune" /\ pc[c] = "done" /\ hist.seq[c] = 1
    /\ op[d] = "prune" /\ pc[d] = "done" /\ hist.seq[d] = 2
    /\ pc[CyclerOf(1)] = "idle" /\ ~pruneInFlight[1] /\ lock = NoLock
    /\ hist.faults = 0

----------------------------------------------------------------------------
(* Scheduling of the burst: time passes, the cycle in flight takes its steps, and a
   call that was made gets past the initialisation *)
BurstFairness ==
  /\ WF_vars(Tick)
  /\ WF_vars(CycleStep(CyclerOf(1)))
  /\ \A c \in Callers : WF_vars(PruneBegin(c))

FairBurstSpec == Init /\ [][BurstNext]_vars /\ BurstFairness

(* The step in which the cycle begins a run: its first, a rerun after the spacing
   sleep, or the first of the cycle that follows a failed one *)
RunBegins(s) ==
  pc[CyclerOf(s)] \in {"idle", "psleep", "caught"} /\ pc'[CyclerOf(s)] = "open"

(* C25: a request that arrives while a run is in progress, with fewer than
   PRUNE_RERUN_CAP reruns made, is followed by a further run that begins after it; the
   requests that arrived during one run or during the spacing sleep after it are all
   taken by the one run that begins next, which leaves none of them pending. *)
C25_RequestIsServed ==
  /\ \A s \in Stores :
       (pruneInFlight[s] /\ prunePending[s] /\ reruns[s] < PRUNE_RERUN_CAP)
         ~> (pc[CyclerOf(s)] = "open" /\ ~prunePending[s])
  /\ [][\A s \in Stores :
          /\ RunBegins(s) => ~prunePending'[s]
          /\ (prunePending[s] /\ ~prunePending'[s])
               => RunBegins(s) \/ ~Reruns(prunePending[s], reruns[s])]_vars

(* C25, its case: two requests arrived during one run *)
C25_Witness ==
  \E c, d \in Callers :
    /\ pc[c] = "awaitCycle" /\ op[d] = "prune" /\ pc[d] = "done"
    /\ hist.ops = 3 /\ hist.seq[d] = 3
    /\ pc[CyclerOf(1)] \in PrunePcs /\ reruns[1] = 0 /\ prunePending[1]

----------------------------------------------------------------------------
(* The startup cleanup and the saves in flight *)

(* The step in which the initialize() of a store completes *)
Initializes(s) == initState[s] = "pending" /\ initState'[s] = "done"

(* C40: the startup temp cleanup of one store instance never deletes the staging file
   of a save that is in flight in another store instance on the same directory: the
   staging file of a save that holds the lock is left alone by the initialisation of
   a store constructed meanwhile. *)
C40_CleanupSparesSaves ==
  [][\A s \in Stores :
       Initializes(s) =>
         \A c \in Callers :
           (op[c] = "save" /\ held[c] # 0 /\ store[c] # s) => tmp'[c] = tmp[c]]_vars

----------------------------------------------------------------------------
(* The budget of acquireLock *)
OverBudget(t) == elapsed[t] > LOCK_TOTAL_TIMEOUT_MS
ThrowsLockError(t) == err[t] # "ELOCK" /\ err'[t] = "ELOCK"
StartsBackoff(t) == pc[t] = "check" /\ pc'[t] = "sleep"
AttemptsCreate(t) == pc[t] = "open" /\ pc'[t] # "open"
GoesBackToCreate(t) == pc[t] = "sleep" /\ pc'[t] = "open"

(* C31 as stated: acquireLock throws the lock error only when more than
   LOCK_TOTAL_TIMEOUT_MS = 10 s have elapsed since it started, whatever the attempt
   number, and once more than 10 s have elapsed it starts no further backoff sleep and
   no further exclusive create. *)
C31_BudgetAsStated ==
  [][\A t \in Threads :
       /\ ThrowsLockError(t) => OverBudget(t)
       /\ OverBudget(t) => ~StartsBackoff(t) /\ ~GoesBackToCreate(t)]_vars

(* C31: acquireLock throws the lock error only when more than 10 s have elapsed since
   it started, whatever the attempt number; the elapsed time is looked at only after a
   failed create, so a create may still be attempted, and may succeed, after 10 s; the
   first budget check that finds more than 10 s elapsed throws, and no backoff sleep
   is started then. *)
C31_Budget ==
  [][\A t \in Threads :
       /\ ThrowsLockError(t) => OverBudget(t) /\ pc[t] = "check"
       /\ OverBudget(t) => ~StartsBackoff(t)
       /\ (OverBudget(t) /\ pc[t] = "check" /\ pc'[t] # pc[t]) => ThrowsLockError(t)
       /\ (OverBudget(t) /\ AttemptsCreate(t))
            => pc'[t] \in {"stat", Work(t), Thrown(t)}]_vars

(* C31, its case: the backoff sleep ended after the budget, and the create is
   attempted once more *)
C31_Witness ==
  \E t \in Threads : pc[t] = "open" /\ OverBudget(t) /\ attempt[t] >= 1 /\ lock # NoLock

----------------------------------------------------------------------------
(* The writer under errors: both callers save on the first store, and fs.writeFile
   fails with a "too many open files" error or with another one *)
WriteCodes == Transient \cup {"EIO"}

RetryNext ==
  \/ \E c \in Callers : \E b \in BundlesOf(c) : StartSave(c, 1, b)
  \/ \E c \in Callers : SaveBuild(c)
  \/ \E c \in Callers : LockOpen(c)
  \/ \E c \in Callers : LockStat(c)
  \/ \E c \in Callers : LockReStat(c)
  \/ \E c \in Callers : LockUnlink(c)
  \/ \E c \in Callers : LockCheck(c)
  \/ \E c \in Callers : LockWake(c)
  \/ \E c \in Callers : Release(c)
  \/ \E c \in Callers : WriteAttempt(c, WriteCodes)
  \/ \E c \in Callers : WriteWake(c)
  \/ \E c \in Callers : WriteEnd(c)
  \/ \E c \in Callers : Rename(c)
  \/ \E c \in Callers : Cleanup(c)
  \/ Tick

RetrySpec == Init /\ [][RetryNext]_vars

(* The steps of writeWithRetries after a failed fs.writeFile *)
RetriesWrite(c) == pc[c] = "write" /\ pc'[c] = "wsleep"
ThrowsWriteError(c) == pc[c] = "write" /\ pc'[c] = "cleanup"
RetrySleeps == <<50, 100, 200, 400, 800>>

(* C33: the staging-file write of a save is attempted at most 6 times; a retry happens
   only after an EMFILE or ENFILE error, fewer than 5 retries made, and the k-th retry
   is preceded by a sleep of 50 * 2^k ms (50, 100, 200, 400, 800); any other error, and
   the transient error of the 6th attempt, is thrown to the save caller with no
   further retry. *)
C33_WriteRetries ==
  /\ [](\A c \in Callers :
          pc[c] \in {"write", "writing", "wsleep"} => attempt[c] <= maxRetries)
  /\ [][\A c \in Callers :
          /\ RetriesWrite(c) =>
               /\ attempt[c] < 5
               /\ sleepLeft'[c] = RetrySleeps[attempt[c] + 1]
               /\ hist'.ev[c] \cap {"EMFILE", "ENFILE"} # {}
               /\ hist'.ev[c] \cap {"EIO"} = {}
               /\ err'[c] = None
          /\ (pc[c] = "wsleep" /\ pc'[c] # "wsleep") =>
               sleepLeft[c] = 0 /\ pc'[c] = "write" /\ attempt'[c] = attempt[c] + 1
          /\ ThrowsWriteError(c) =>
               /\ err'[c] \in hist'.ev[c]
               /\ err'[c] \in {"EMFILE", "ENFILE"} => attempt[c] = 5
          /\ (pc[c] = "cleanup" /\ err[c] \in WriteCodes) => pc'[c] \in {"cleanup", "release"}
          /\ (pc[c] = "release" /\ err[c] \in WriteCodes /\ pc'[c] # pc[c])
               => pc'[c] = "failed" /\ err'[c] = err[c]]_vars

(* C33, its case: the sixth attempt failed with ENFILE after five retries, and the
   save rejected with it *)
C33_Witness ==
  \E c \in Callers :
    /\ pc[c] = "failed" /\ err[c] = "ENFILE"
    /\ {"EMFILE", "ENFILE"} \subseteq hist.ev[c]
----------------------------------------------------------------------------
(* A prune of a directory that holds, beside earlier saves, files that are no records:
   one that does not parse, one without id, one without created_at, and one whose name
   does not end in .json; a save by the other caller runs beside the prune, and reading
   a file during the scan may fail *)
Text(members) == <<OpenBrace>> \o members \o <<CloseBrace>>
Garbled == [text |-> <<OpenBrace>>, mtime |-> T0 - 2 * DayMs]
NoId == [text |-> Text(Member("created_at", JStr(toISOString(T0)))), mtime |-> T0]
NoDate == [text |-> Text(Member("id", JStr(<<"d">>))), mtime |-> T0]
NoteName == <<"n", "o", "t", "e">>
Strays ==
  [n \in {FileName(<<"g">>), FileName(<<"i">>), FileName(<<"d">>), NoteName} |->
     IF n = FileName(<<"g">>) THEN Garbled
     ELSE IF n = FileName(<<"i">>) THEN NoId
     ELSE IF n = FileName(<<"d">>) THEN NoDate
     ELSE Garbled]
Records3 == {x \in EarlierSaves : x.id \in {<<"o">>, <<"e">>, <<"n">>}}
WithStrays(dir) == [n \in DOMAIN dir \cup DOMAIN Strays |->
                      IF n \in DOMAIN dir THEN dir[n] ELSE Strays[n]]
SweepDirectories ==
  {WithStrays(Directory(S)) : S \in {X \in SUBSET Records3 : \E x \in X : x.id = <<"n">>}}
SweepConfigs == {cfg \in KeepConfigs : cfg[1].max_age_days = 1}

SweepInit == \E cfg \in SweepConfigs, dir \in SweepDirectories : StartWith(0, cfg, dir)

SweepNext ==
  \/ StartPrune(1, 1)
  \/ PruneBegin(1)
  \/ \E b \in BundlesOf(2) : StartSave(2, 1, b)
  \/ SaveBuild(2)
  \/ \E t \in Threads : LockOpen(t)
  \/ \E t \in Threads : LockStat(t)
  \/ \E t \in Threads : LockReStat(t)
  \/ \E t \in Threads : LockUnlink(t)
  \/ \E t \in Threads : LockCheck(t)
  \/ \E t \in Threads : LockWake(t)
  \/ \E t \in Threads : Release(t)
  \/ WriteBegin(2)
  \/ WriteWake(2)
  \/ WriteEnd(2)
  \/ Rename(2)
  \/ Cleanup(2)
  \/ ScanReaddir(CyclerOf(1))
  \/ ScanFailing(CyclerOf(1))
  \/ PruneDelete(CyclerOf(1))
  \/ CycleNext(CyclerOf(1))
  \/ CycleCatch(CyclerOf(1))
  \/ Tick

SweepSpec == SweepInit /\ [][SweepNext]_vars

(* The step in which a prune run has unlinked what it marked *)
Unlinks(k) == pc[k] = "deleting" /\ pc'[k] # "deleting"
(* The files a step removes from evidence/ *)
Removed == DOMAIN files \ DOMAIN files'
(* The *.json files of evidence/ that hold no record *)
Unparsable == {n \in DOMAIN files : EndsWithJson(n) /\ ~Parsable(files[n])}

(* C34 as stated: every *.json file directly under evidence/ that fails to parse or
   lacks id or created_at is deleted by the prune run, whatever its age and
   max_bundles, and it does not count toward the max_bundles budget of the parsable
   records. *)
C34_UnparsableDeletedAsStated ==
  [][\A k \in Cyclers :
       Unlinks(k) =>
         LET s == StoreOf(k)
             fresh == Fresh(files, scan[k].at, s)
         IN  /\ Unparsable \cap DOMAIN files' = {}
             /\ Cardinality(fresh \cap DOMAIN files')
                  = Min(Cardinality(fresh), config[s].max_bundles)]_vars

(* C34, amended: in a prune run in which no system call failed (the readdir, the stat
   and the read of each entry, each unlink) and beside which no other call ran, every
   *.json file directly under evidence/ that fails to parse or lacks id or created_at
   is deleted, whatever its age and max_bundles, and it does not count toward the
   max_bundles budget: of the parsable records within the age budget, max_bundles
   remain, or all of them if they are fewer. *)
C34_UnparsableDeleted ==
  [][\A k \in Cyclers :
       (PruneDeletes(k) /\ ~hist.overlap) =>
         LET s == StoreOf(k)
             fresh == Fresh(files, scan[k].at, s)
         IN  /\ Unparsable \cap DOMAIN files' = {}
             /\ Cardinality(fresh \cap DOMAIN files')
                  = Min(Cardinality(fresh), config[s].max_bundles)]_vars

(* C34, its case: with max_bundles = 2 the prune has ended; the three files that held
   no record are gone and the two records within the age budget are both there *)
C34_Witness ==
  /\ config[1].max_bundles = 2 /\ config[1].max_age_days = 1
  /\ op[1] = "prune" /\ pc[1] = "done" /\ hist.faults = 0
  /\ DOMAIN files = {FileName(<<"e">>), FileName(<<"n">>), NoteName}

(* The records a prune run must leave: valid, within the age budget at the time of the
   run, and with fewer than max_bundles other such records at least as new *)
MustStay(k) ==
  LET s == StoreOf(k)
      fresh == Fresh(files, scan[k].at, s)
  IN  {n \in fresh :
         Cardinality({m \in fresh \ {n} : EffectiveTime(files[m]) >= EffectiveTime(files[n])})
           < config[s].max_bundles}

(* C35: a prune run never deletes a valid record that is within the age budget and
   among the newest max_bundles records that survive the age rule, also when reading a
   file fails during the scan or a save runs beside the prune. *)
C35_ValidRecordsStay ==
  [][\A k \in Cyclers : Unlinks(k) => Removed \cap MustStay(k) = {}]_vars

(* C36: when the unlink of a marked file fails in a prune run, the other marked files
   are unlinked all the same and the run does not fail: it goes on to release the lock
   and returns. *)
C36_UnlinkFailureIgnored ==
  /\ [][\A k \in Cyclers :
          Unlinks(k) =>
            /\ pc'[k] = "release" /\ err'[k] = None
            /\ Cardinality(scan[k].del \cap DOMAIN files') = hist'.faults - hist.faults]_vars
  /\ [][\A k \in Cyclers :
          (pc[k] = "release" /\ pc'[k] # "release") =>
            /\ pc'[k] = "afterRun"
            /\ hist'.faults = hist.faults => lock' = NoLock]_vars

(* C36, its case: the run is over and the lock is free; the unlink of the file that
   does not parse failed, the only fault of the run, and the files without id and
   without created_at are gone *)
C36_Witness ==
  /\ op[1] = "prune" /\ pc[1] = "done" /\ pc[CyclerOf(1)] = "idle" /\ lock = NoLock
  /\ hist.faults = 1 /\ hist.log[1] = None
  /\ FileName(<<"g">>) \in DOMAIN files
  /\ FileName(<<"i">>) \notin DOMAIN files /\ FileName(<<"d">>) \notin DOMAIN files

(* C37: a prune run deletes only regular files named *.json directly under evidence/:
   its step leaves the .lock marker, the staging files of .tmp and every file that is
   not named *.json as they are. *)
C37_DeletesOnlyJson ==
  [][\A k \in Cyclers :
       Unlinks(k) =>
         /\ \A n \in Removed : EndsWithJson(n)
         /\ lock' = lock /\ tmp' = tmp /\ orphans' = orphans]_vars

(* C37, its case: the run has deleted the files that held no record; it still holds the
   lock, the file that is not named *.json is there, and so is the staging file a
   failed save left in .tmp *)
C37_Witness ==
  /\ pc[CyclerOf(1)] = "release" /\ lock # NoLock /\ lock.ino = CyclerOf(1)
  /\ NoteName \in DOMAIN files /\ Unparsable = {}
  /\ tmp[2] # NoFile

----------------------------------------------------------------------------
(* C38: a store is initialized once, and no save of an enabled store, list or prune
   touches the directory before the initialization of its store has ended: a call is
   past its wait only when the store is initialized, a call on a store whose
   initialization failed fails without a step in the directory, and an initialization
   that has ended does not run again. *)
C38_InitOnceBeforeUse ==
  /\ [](\A t \in Threads :
          pc[t] \notin RestPcs \cup {"awaitInit"} => initState[StoreOf(t)] = "done")
  /\ [][\A c \in Callers :
          (pc[c] = "awaitInit" /\ pc'[c] \notin {"awaitInit", "crashed"}) =>
            /\ initState[store[c]] \in {"done", "failed"}
            /\ initState[store[c]] = "failed" =>
                 pc'[c] = "failed" /\ files' = files /\ lock' = lock /\ tmp' = tmp]_vars
  /\ [][\A s \in Stores :
          initState[s] # "pending" => initState'[s] \in {initState[s], "crashed"}]_vars

(* C38, its case: a save waited for the initialization of the second store, which has
   ended, and the save has put its record into the directory *)
C38_Witness ==
  /\ initState[2] = "done"
  /\ store[2] = 2 /\ op[2] = "save" /\ pc[2] = "done"
  /\ FileName(<<"a">>) \in DOMAIN files

----------------------------------------------------------------------------
(* The start of a second store instance on a directory whose .tmp holds leftovers: none,
   one, or as many as the limit of the cleanup, one fewer and one more; the first
   instance saves meanwhile and the second lists once it is initialized *)
Leftovers == {0, 1, MAX_TMP_CLEANUP_FILES - 1, MAX_TMP_CLEANUP_FILES, MAX_TMP_CLEANUP_FILES + 1}

BootInit == \E left \in Leftovers : StartAt(0, Config, NoFiles, NoLock, left)

BootNext ==
  \/ \E b \in BundlesOf(1) : StartSave(1, 1, b)
  \/ SaveBuild(1)
  \/ LockOpen(1)
  \/ WriteBegin(1)
  \/ WriteWake(1)
  \/ WriteEnd(1)
  \/ Rename(1)
  \/ Cleanup(1)
  \/ Release(1)
  \/ InitFailing(2)
  \/ StartList(2, 2)
  \/ ListBegin(2)
  \/ ScanReaddir(2)
  \/ ScanRead(2)
  \/ Tick

BootSpec == BootInit /\ [][BootNext]_vars

(* The number of files in .tmp before and after a step, and the unlinks that failed in it *)
Left == Cardinality(Staged) + orphans
LeftAfter == Cardinality({c \in Callers : tmp'[c] # NoFile}) + orphans'
FailedIn == hist'.faults - hist.faults

(* The cleanup as stated: every leftover is removed but those whose removal failed,
   which are logged, when there are at most 1000; otherwise 1000 removals are
   attempted and the limit is logged *)
CleansUp(s) ==
  \/ /\ Left <= MAX_TMP_CLEANUP_FILES
     /\ LeftAfter = FailedIn
     /\ hist'.log[s] = IF FailedIn > 0 THEN WarnRemove ELSE hist.log[s]
  \/ /\ Left > MAX_TMP_CLEANUP_FILES
     /\ Left - LeftAfter = MAX_TMP_CLEANUP_FILES - FailedIn
     /\ hist'.log[s] = WarnLimit

(* The cleanup whose readdir failed: nothing is removed and nothing is logged *)
SeesNothing(s) == FailedIn = 1 /\ LeftAfter = Left /\ hist'.log[s] = hist.log[s]

(* C39 as stated: the startup cleanup removes every leftover file in evidence/.tmp when
   there are at most 1000 of them; when there are more it attempts exactly 1000
   removals, logs a warning and stops; a removal that fails is logged and does not
   stop the cleanup of the remaining files. *)
C39_StartupCleanupAsStated ==
  [][\A s \in Stores : Initializes(s) => CleansUp(s)]_vars

(* C39, amended: when the readdir of evidence/.tmp succeeds, the startup cleanup
   removes every leftover file when there are at most 1000 of them; when there are more
   it attempts exactly 1000 removals, logs a warning and stops; a removal that fails is
   logged and does not stop the cleanup of the remaining files.  When the readdir
   fails, the cleanup removes nothing and logs nothing. *)
C39_StartupCleanup ==
  [][\A s \in Stores : Initializes(s) => (CleansUp(s) \/ SeesNothing(s))]_vars

(* C39, its case: of 1001 leftovers the cleanup of the second store took 1000, one of
   which it could not remove, and logged the limit: two are left *)
C39_Witness ==
  /\ initState[2] = "done" /\ hist.log[2] = WarnLimit
  /\ hist.faults = 1 /\ hist.ops = 0 /\ orphans = 2

----------------------------------------------------------------------------
(* A caller alone with the marker of a holder that crashed: the marker is of some age
   when the caller starts, no system call fails, and the system calls take no time
   beside the backoff sleeps, which last as long as they were set to *)
Ages == {0, 1000, LOCK_TIMEOUT_MS - 10, LOCK_TIMEOUT_MS, LOCK_TIMEOUT_MS + 1}

RecoverInit ==
  \E age \in Ages : StartOn(MaxFaults, Config, NoFiles, [ino |-> Foreign, age |-> age])

(* this.sleep(delay), line 275: the sleep lasts the delay *)
Sleeps(t) == pc[t] = "sleep" /\ sleepLeft[t] > 0 /\ Elapse(sleepLeft[t])

RecoverNext ==
  \/ \E b \in BundlesOf(1) : StartSave(1, 1, b)
  \/ SaveBuild(1)
  \/ LockOpen(1)
  \/ LockStat(1)
  \/ LockReStat(1)
  \/ LockUnlink(1)
  \/ LockCheck(1)
  \/ Sleeps(1)
  \/ LockWake(1)
  \/ WriteBegin(1)
  \/ WriteEnd(1)
  \/ Rename(1)
  \/ Cleanup(1)
  \/ Release(1)

RecoverSpec == RecoverInit /\ [][RecoverNext]_vars /\ WF_vars(RecoverNext)

(* The step in which a thread creates the marker and has the lock *)
Obtains(t) == pc[t] = "open" /\ pc'[t] = Work(t)

(* C32: after a holder crashed without releasing, a single caller that starts acquiring
   obtains the lock once the marker is older than 5 s and within its budget of 10 s: it
   does not fail with the lock error, it removes the marker only when that is older
   than 5 s and no later than one backoff after, it is in its work within the budget,
   and its save is completed. *)
C32_RecoversFromCrash ==
  /\ [](err[1] # "ELOCK")
  /\ [](pc[1] \in AcquirePcs /\ lock # NoLock /\ lock.ino = Foreign
          => lock.age <= LOCK_TIMEOUT_MS + Backoff(Len(LOCK_BACKOFFS_MS)))
  /\ [][(lock # NoLock /\ lock.ino = Foreign /\ lock' = NoLock)
          => IsStale(lock.age)]_vars
  /\ [][Obtains(1) => elapsed[1] < LOCK_TOTAL_TIMEOUT_MS]_vars
  /\ (pc[1] \in AcquirePcs) ~> (held[1] = 1)
  /\ (pc[1] \in AcquirePcs) ~> (pc[1] = "done")

(* C32, its case: the first save of the caller met the marker of the crashed holder;
   the save is in the directory and the lock is free again *)
C32_Witness ==
  /\ op[1] = "save" /\ pc[1] = "done" /\ lock = NoLock
  /\ hist.ops = 1 /\ DOMAIN files # {}

====
